---- MODULE Spec2Model ----
(***************************************************************************)
(* Dialog flow state machine of backend/dialog_manager.py: the shared      *)
(* flow definitions, the session -> flow registry and process_turn with    *)
(* every handler it calls.  Text is a sequence of one-character strings,   *)
(* so that normalizers and validators are computed character by character. *)
(***************************************************************************)
EXTENDS Integers, Sequences, FiniteSets, TLC

(* ------------------------------------------------------------------ *)
(* Python string primitives                                            *)
(* ------------------------------------------------------------------ *)

UpperLetters == <<"A", "B", "C", "D", "E", "F", "G", "H", "I", "J", "K", "L", "M", "N", "O", "P", "Q", "R", "S", "T", "U", "V", "W", "X", "Y", "Z">>

LowerLetters == <<"a", "b", "c", "d", "e", "f", "g", "h", "i", "j", "k", "l", "m", "n", "o", "p", "q", "r", "s", "t", "u", "v", "w", "x", "y", "z">>

DigitChars == <<"0", "1", "2", "3", "4", "5", "6", "7", "8", "9">>

IsDigitChar(c) == \E i \in 1..10 : DigitChars[i] = c

DigitValue(c) == (CHOOSE i \in 1..10 : DigitChars[i] = c) - 1

LowerChar(c) ==
    IF \E i \in 1..26 : UpperLetters[i] = c
    THEN LowerLetters[CHOOSE i \in 1..26 : UpperLetters[i] = c]
    ELSE c

UpperChar(c) ==
    IF \E i \in 1..26 : LowerLetters[i] = c
    THEN UpperLetters[CHOOSE i \in 1..26 : LowerLetters[i] = c]
    ELSE c

RECURSIVE Lower(_)
Lower(s) == IF s = <<>> THEN <<>> ELSE <<LowerChar(Head(s))>> \o Lower(Tail(s))

RECURSIVE Upper(_)
Upper(s) == IF s = <<>> THEN <<>> ELSE <<UpperChar(Head(s))>> \o Upper(Tail(s))

IsSpace(c) == c = " "

RECURSIVE LStrip(_)
LStrip(s) == IF s /= <<>> /\ IsSpace(Head(s)) THEN LStrip(Tail(s)) ELSE s

RECURSIVE RStrip(_)
RStrip(s) ==
    IF s /= <<>> /\ IsSpace(s[Len(s)]) THEN RStrip(SubSeq(s, 1, Len(s) - 1)) ELSE s

Strip(s) == RStrip(LStrip(s))

Contains(s, sub) ==
    \E i \in 0..(Len(s) - Len(sub)) : SubSeq(s, i + 1, i + Len(sub)) = sub

HasChar(s, c) == \E i \in 1..Len(s) : s[i] = c

NotSpace(c) == c /= " "

RemoveNonDigits(s) == SelectSeq(s, IsDigitChar)

RemoveSpaces(s) == SelectSeq(s, NotSpace)

IsDigitStr(s) == s /= <<>> /\ \A i \in 1..Len(s) : IsDigitChar(s[i])

RECURSIVE ToInt(_)
ToInt(s) ==
    IF s = <<>> THEN 0 ELSE 10 * ToInt(SubSeq(s, 1, Len(s) - 1)) + DigitValue(s[Len(s)])

(* x.split("@")[-1]: what follows the last "@", the whole text without one *)
AfterLastAt(s) ==
    IF HasChar(s, "@")
    THEN LET i == CHOOSE k \in 1..Len(s) :
                      s[k] = "@" /\ \A j \in (k + 1)..Len(s) : s[j] /= "@"
         IN SubSeq(s, i + 1, Len(s))
    ELSE s

(* Python truthiness of a str *)
Truthy(s) == s /= <<>>

(* ------------------------------------------------------------------ *)
(* Literals of the source                                              *)
(* ------------------------------------------------------------------ *)

None == <<"None">>

SkipSentinel == <<"N", "/", "A">>

cancel_phrases ==
    << <<"c", "a", "n", "c", "e", "l">>,
       <<"s", "t", "o", "p">>,
       <<"n", "e", "v", "e", "r", " ", "m", "i", "n", "d">>,
       <<"n", "e", "v", "e", "r", "m", "i", "n", "d">>,
       <<"f", "o", "r", "g", "e", "t", " ", "i", "t">>,
       <<"q", "u", "i", "t">>,
       <<"e", "x", "i", "t">> >>

SkipTokens ==
    { <<"s", "k", "i", "p">>, <<"n", "o">>, <<"n", "o", "n", "e">>, <<"n", "/", "a">> }

AffirmativeTokens ==
    { <<"y", "e", "s">>, <<"y">>, <<"c", "o", "r", "r", "e", "c", "t">>,
      <<"c", "o", "n", "f", "i", "r", "m">>,
      <<"t", "h", "a", "t", "'", "s", " ", "r", "i", "g", "h", "t">>,
      <<"y", "e", "p">>, <<"y", "e", "a", "h">> }

NegativeTokens ==
    { <<"n", "o">>, <<"n">>, <<"w", "r", "o", "n", "g">>,
      <<"i", "n", "c", "o", "r", "r", "e", "c", "t">>,
      <<"c", "h", "a", "n", "g", "e">>, <<"e", "d", "i", "t">> }

(* ------------------------------------------------------------------ *)
(* Slot and flow definitions (DialogManager._register_default_flows)   *)
(* ------------------------------------------------------------------ *)

DefaultMaxAttempts == 3

Slot(name, required, entity_type, validator, normalizer) ==
    [name |-> name, required |-> required, entity_type |-> entity_type,
     validator |-> validator, normalizer |-> normalizer,
     reprompt_message |-> FALSE, max_attempts |-> DefaultMaxAttempts]

rfq_flow ==
    [name |-> "rfq_flow",
     trigger_intents |-> {"NAV_RFQ", "request_quote"},
     slots |-> << Slot("product", TRUE, "product", "default", "default"),
                  Slot("quantity", TRUE, "quantity", "positive_int", "digits_only"),
                  Slot("company", TRUE, "company", "min_len_2", "default"),
                  Slot("email", TRUE, "email", "email", "lower_strip"),
                  Slot("timeline", FALSE, "date", "default", "default") >>,
     completion_message |-> TRUE,
     confirmation_prompt |-> TRUE,
     on_complete |-> FALSE]

tracking_flow ==
    [name |-> "tracking_flow",
     trigger_intents |-> {"INFO_TRACK", "track_order", "order_status"},
     slots |-> << Slot("order_number", TRUE, "order_number", "order_number", "upper_nospace") >>,
     completion_message |-> TRUE,
     confirmation_prompt |-> FALSE,
     on_complete |-> FALSE]

bulk_discount_flow ==
    [name |-> "bulk_discount_flow",
     trigger_intents |-> {"INFO_BULK", "volume_discount", "bulk_pricing"},
     slots |-> << Slot("product", TRUE, "product", "default", "default"),
                  Slot("quantity", TRUE, "quantity", "int_ge_100", "default") >>,
     completion_message |-> TRUE,
     confirmation_prompt |-> FALSE,
     on_complete |-> FALSE]

sample_flow ==
    [name |-> "sample_flow",
     trigger_intents |-> {"INFO_SAMPLE", "request_sample"},
     slots |-> << Slot("product", TRUE, "product", "default", "default"),
                  Slot("company", TRUE, "company", "default", "default"),
                  Slot("email", TRUE, "email", "email", "default") >>,
     completion_message |-> TRUE,
     confirmation_prompt |-> FALSE,
     on_complete |-> FALSE]

pricing_flow ==
    [name |-> "pricing_flow",
     trigger_intents |-> {"INFO_PRICE", "price_check"},
     slots |-> << Slot("product", TRUE, "product", "default", "default"),
                  Slot("large_order_check", TRUE, "confirmation", "default", "default") >>,
     completion_message |-> TRUE,
     confirmation_prompt |-> FALSE,
     on_complete |-> FALSE]

product_inquiry_flow ==
    [name |-> "product_inquiry_flow",
     trigger_intents |-> {"INFO_MOQ"},
     slots |-> << Slot("product", TRUE, "product", "default", "default") >>,
     completion_message |-> FALSE,
     confirmation_prompt |-> FALSE,
     on_complete |-> FALSE]

(* self.flows in registration order *)
RegisteredFlows ==
    << rfq_flow, tracking_flow, bulk_discount_flow, sample_flow, pricing_flow,
       product_inquiry_flow >>

FlowNames == { RegisteredFlows[i].name : i \in 1..Len(RegisteredFlows) }

FlowDef(name) ==
    RegisteredFlows[CHOOSE i \in 1..Len(RegisteredFlows) : RegisteredFlows[i].name = name]

SlotCount(name) == Len(FlowDef(name).slots)

SlotDef(name, i) == FlowDef(name).slots[i]

NoFlow == "None"

(* Slot.validate *)
validate(slot, value) ==
    CASE slot.validator = "positive_int" -> IsDigitStr(value) /\ ToInt(value) > 0
      [] slot.validator = "int_ge_100" -> IsDigitStr(value) /\ ToInt(value) >= 100
      [] slot.validator = "min_len_2" -> Len(value) >= 2
      [] slot.validator = "email" -> HasChar(value, "@") /\ HasChar(AfterLastAt(value), ".")
      [] slot.validator = "order_number" ->
            Len(value) >= 4 /\ \E i \in 1..Len(value) : IsDigitChar(value[i])
      [] OTHER -> Truthy(value) /\ Truthy(Strip(value))

(* Slot.normalize *)
normalize(slot, value) ==
    CASE slot.normalizer = "digits_only" -> RemoveNonDigits(value)
      [] slot.normalizer = "lower_strip" -> Strip(Lower(value))
      [] slot.normalizer = "upper_nospace" -> RemoveSpaces(Upper(value))
      [] OTHER -> Strip(value)

(* ------------------------------------------------------------------ *)
(* Inputs of the turns                                                 *)
(* ------------------------------------------------------------------ *)

Sessions == {"s1", "s2"}

T_500 == <<"5", "0", "0">>
T_acme == <<"A", "c", "m", "e", " ", "I", "n", "d", "u", "s", "t", "r", "i", "e", "s">>
T_email == <<"o", "r", "d", "e", "r", "s", "@", "a", "c", "m", "e", ".", "c", "o", "m">>
T_yes == <<"y", "e", "s">>
T_no == <<"n", "o">>
T_skip == <<"s", "k", "i", "p">>
T_cancel == <<"c", "a", "n", "c", "e", "l">>
V_servo == <<"s", "e", "r", "v", "o", " ", "m", "o", "t", "o", "r">>
V_po1 == <<"P", "O", " ", "1">>
V_order == <<"1", "2", "3", "4", "5">>

Texts == {T_500, T_acme, T_email, T_yes, T_no, T_cancel}

Intents == {"None", "NAV_RFQ", "INFO_TRACK", "GREETING"}

EntityTypes == {"product", "quantity", "company", "email", "date", "order_number",
                "confirmation"}

NoEntities == [t \in EntityTypes |-> None]

OneEntity(type, value) == [NoEntities EXCEPT ![type] = value]

EntityMaps ==
    {NoEntities, OneEntity("product", V_servo), OneEntity("order_number", V_po1),
     OneEntity("order_number", V_order)}

(* what a turn passes to process_turn: an intent with the entities of its text,
   or a text alone *)
TurnInput(intent, entities, user_text) ==
    [intent |-> intent, entities |-> entities, user_text |-> user_text]

TurnInputs ==
    {TurnInput("NAV_RFQ", OneEntity("product", V_servo), T_acme),
     TurnInput("INFO_TRACK", NoEntities, T_acme),
     TurnInput("INFO_TRACK", OneEntity("order_number", V_po1), T_acme),
     TurnInput("INFO_TRACK", OneEntity("order_number", V_order), T_acme),
     TurnInput("GREETING", NoEntities, T_acme)}
    \cup {TurnInput("None", NoEntities, t) : t \in Texts}

(* the turns of the second session, which interleave with those of the first *)
OtherInputs ==
    {TurnInput("NAV_RFQ", OneEntity("product", V_servo), T_acme),
     TurnInput("None", NoEntities, T_cancel)}

InputsOf(s) == IF s = "s1" THEN TurnInputs ELSE OtherInputs

(* ------------------------------------------------------------------ *)
(* Python text operations of the per-turn pipeline.  Positions are     *)
(* Python's: the character at index k is s[k + 1].                     *)
(* ------------------------------------------------------------------ *)

IsLetterChar(c) == \E i \in 1..26 : LowerLetters[i] = c \/ UpperLetters[i] = c

(* str.isalnum of one character *)
IsAlnum(c) == IsDigitChar(c) \/ IsLetterChar(c)

(* a character that \w matches *)
IsWordChar(c) == IsAlnum(c) \/ c = "_"

StartsWith(s, p) == Len(s) >= Len(p) /\ SubSeq(s, 1, Len(p)) = p

(* str.split(): the maximal runs of characters that are not spaces *)
Tokens(s) ==
    {SubSeq(s, ij[1], ij[2]) :
        ij \in {p \in (1..Len(s)) \X (1..Len(s)) :
                  /\ p[1] <= p[2]
                  /\ \A k \in p[1]..p[2] : ~IsSpace(s[k])
                  /\ (p[1] = 1 \/ IsSpace(s[p[1] - 1]))
                  /\ (p[2] = Len(s) \/ IsSpace(s[p[2] + 1]))}}

MatchAt(s, p, k) == k >= 0 /\ k + Len(p) <= Len(s) /\ SubSeq(s, k + 1, k + Len(p)) = p

(* \b before index k and after index e of a match that begins and ends with
   a word character *)
BoundaryBefore(s, k) == k = 0 \/ ~IsWordChar(s[k])

BoundaryAfter(s, e) == e >= Len(s) \/ ~IsWordChar(s[e + 1])

WordAt(s, p, k) ==
    MatchAt(s, p, k) /\ BoundaryBefore(s, k) /\ BoundaryAfter(s, k + Len(p))

(* re.search(r'\b' + p + r'\b', s) *)
WordSearch(s, p) == \E k \in 0..(Len(s) - Len(p)) : WordAt(s, p, k)

(* re.sub(r'\b' + p + r'\b', v, s, flags=re.IGNORECASE), p in lower case *)
RECURSIVE ReplaceWordFrom(_, _, _, _)
ReplaceWordFrom(s, p, v, k) ==
    IF k >= Len(s) THEN <<>>
    ELSE IF WordAt(Lower(s), p, k)
    THEN v \o ReplaceWordFrom(s, p, v, k + Len(p))
    ELSE <<s[k + 1]>> \o ReplaceWordFrom(s, p, v, k + 1)

ReplaceWord(s, p, v) == ReplaceWordFrom(s, p, v, 0)

RECURSIVE DigitRunLen(_, _)
DigitRunLen(s, k) ==
    IF k < Len(s) /\ IsDigitChar(s[k + 1]) THEN 1 + DigitRunLen(s, k + 1) ELSE 0

RECURSIVE SpaceRunLen(_, _)
SpaceRunLen(s, k) ==
    IF k < Len(s) /\ IsSpace(s[k + 1]) THEN 1 + SpaceRunLen(s, k + 1) ELSE 0

Min(a, b) == IF a <= b THEN a ELSE b

(* str(n) of a natural number *)
RECURSIVE IntStr(_)
IntStr(n) ==
    IF n < 10 THEN <<DigitChars[n + 1]>>
    ELSE IntStr(n \div 10) \o <<DigitChars[(n % 10) + 1]>>

(* str(v) of a list holding the one string v *)
ListStr(v) == <<"[", "'">> \o v \o <<"'", "]">>

(* ------------------------------------------------------------------ *)
(* The utterances of the pipeline turns                                *)
(* ------------------------------------------------------------------ *)

SystemSentinel == <<"S", "Y", "S", "T", "E", "M", "_", "R", "F", "Q", "_", "S", "U", "B", "M", "I", "T", "T", "E", "D">>

U_need == <<"I", " ", "n", "e", "e", "d", " ", "5", "0", "0", " ", "b", "e", "a", "r", "i", "n", "g", "s">>
U_about == <<"a", "c", "t", "u", "a", "l", "l", "y", " ", "w", "h", "a", "t", " ", "a", "b", "o", "u", "t", " ", "a", "c", "t", "u", "a", "t", "o", "r", "s">>
U_price == <<"p", "r", "i", "c", "e", " ", "o", "f", " ", "a", "c", "t", "u", "a", "t", "o", "r", "s">>
U_bulk == <<"b", "u", "l", "k", " ", "p", "r", "i", "c", "e", " ", "o", "f", " ", "a", "c", "t", "u", "a", "t", "o", "r", "s">>
U_status == <<"s", "t", "a", "t", "u", "s", " ", "o", "f", " ", "R", "E", "Q", "-", "1", "2", "3", "4", "5", " ", "f", "o", "r", " ", "b", "e", "a", "r", "i", "n", "g", "s">>
U_it == <<"w", "h", "a", "t", " ", "i", "s", " ", "t", "h", "e", " ", "p", "r", "i", "c", "e", " ", "o", "f", " ", "i", "t">>
U_cancel_price == <<"c", "a", "n", "c", "e", "l", " ", "t", "h", "e", " ", "p", "r", "i", "c", "e", " ", "o", "f", " ", "b", "e", "a", "r", "i", "n", "g", "s">>
U_joke == <<"t", "e", "l", "l", " ", "m", "e", " ", "a", " ", "j", "o", "k", "e">>
U_movie == <<"p", "r", "i", "c", "e", " ", "o", "f", " ", "a", " ", "m", "o", "v", "i", "e">>
U_agent == <<"s", "p", "e", "a", "k", " ", "t", "o", " ", "a", "n", " ", "a", "g", "e", "n", "t">>
U_agent_joke == <<"t", "e", "l", "l", " ", "t", "h", "e", " ", "a", "g", "e", "n", "t", " ", "a", " ", "j", "o", "k", "e">>
U_joke_bearings == <<"t", "e", "l", "l", " ", "m", "e", " ", "a", " ", "j", "o", "k", "e", " ", "a", "b", "o", "u", "t", " ", "b", "e", "a", "r", "i", "n", "g", "s">>
U_yes_please == <<"Y", "e", "s", ",", " ", "p", "l", "e", "a", "s", "e">>
U_abort == <<"a", "b", "o", "r", "t">>

Utterances ==
    {U_need, U_about, U_price, U_bulk, U_status, U_it, T_cancel, U_cancel_price,
     U_joke, U_movie, U_agent, U_agent_joke, U_joke_bearings, U_yes_please, U_abort, T_yes,
     T_500,
     SystemSentinel}

V_bearing == <<"b", "e", "a", "r", "i", "n", "g">>
V_actuator == <<"a", "c", "t", "u", "a", "t", "o", "r">>

(* ------------------------------------------------------------------ *)
(* EntityExtractor.extract_all, with the catalogue entries and the     *)
(* patterns that match in these utterances; the fuzzy product layer    *)
(* yields no further entity on them.  An entity is                     *)
(* [type, value, start, end, confidence (percent), order].             *)
(* ------------------------------------------------------------------ *)

ProductCatalog ==
    << [name |-> V_servo,
        variations |-> << <<"s", "e", "r", "v", "o">>, <<"s", "e", "r", "v", "o", " ", "m", "o", "t", "o", "r">>, <<"s", "e", "r", "v", "o", "m", "o", "t", "o", "r">>, <<"i", "n", "d", "u", "s", "t", "r", "i", "a", "l", " ", "s", "e", "r", "v", "o">>,
                          <<"s", "e", "r", "v", "o", " ", "m", "o", "t", "o", "r", "s">>, <<"s", "e", "r", "v", "o", "s">>, <<"m", "o", "t", "o", "r">>, <<"m", "o", "t", "o", "r", "s">> >>],
       [name |-> V_actuator,
        variations |-> << <<"a", "c", "t", "u", "a", "t", "o", "r">>, <<"a", "c", "t", "u", "a", "t", "o", "r", "s">>, <<"h", "e", "a", "v", "y", " ", "d", "u", "t", "y", " ", "a", "c", "t", "u", "a", "t", "o", "r">>,
                          <<"l", "i", "n", "e", "a", "r", " ", "a", "c", "t", "u", "a", "t", "o", "r">>, <<"p", "n", "e", "u", "m", "a", "t", "i", "c", " ", "a", "c", "t", "u", "a", "t", "o", "r">> >>],
       [name |-> V_bearing,
        variations |-> << <<"b", "e", "a", "r", "i", "n", "g">>, <<"b", "e", "a", "r", "i", "n", "g", "s">>, <<"b", "a", "l", "l", " ", "b", "e", "a", "r", "i", "n", "g">>, <<"r", "o", "l", "l", "e", "r", " ", "b", "e", "a", "r", "i", "n", "g">> >>] >>

(* the rank of an entity type in the result dict of extract_all *)
TypeRank(type) ==
    CASE type = "quantity" -> 1
      [] type = "order_number" -> 2
      [] type = "rfq_id" -> 3
      [] OTHER -> 10

Entity(type, value, start, end, confidence, order) ==
    [type |-> type, value |-> value, start |-> start, end |-> end,
     confidence |-> confidence, order |-> <<TypeRank(type)>> \o order]

(* the plural suffix "s" or "es" that _extract_products allows after a variation *)
PluralLen(text_lower, after_idx) ==
    IF after_idx < Len(text_lower) /\ text_lower[after_idx + 1] = "s" THEN 1
    ELSE IF after_idx + 1 < Len(text_lower)
            /\ SubSeq(text_lower, after_idx + 1, after_idx + 2) = <<"e", "s">> THEN 2
    ELSE 0

(* EntityExtractor._extract_products before deduplication; variations are
   tried longest first *)
ProductMatches(text) ==
    LET text_lower == Lower(text)
        found(p, v) ==
            LET product_name == ProductCatalog[p].name
                variation == ProductCatalog[p].variations[v]
            IN { Entity("product", product_name, idx,
                        idx + Len(variation) + PluralLen(text_lower, idx + Len(variation)),
                        IF variation = Lower(product_name) THEN 95
                        ELSE IF Len(variation) > 5 THEN 85 ELSE 70,
                        <<p, 0 - Len(variation), v, idx>>) :
                   idx \in {k \in 0..(Len(text_lower) - Len(variation)) :
                      /\ MatchAt(text_lower, variation, k)
                      /\ (k = 0 \/ ~IsAlnum(text_lower[k]))
                      /\ LET end_idx == k + Len(variation)
                                        + PluralLen(text_lower, k + Len(variation))
                         IN end_idx >= Len(text_lower) \/ ~IsAlnum(text_lower[end_idx + 1])} }
    IN UNION { UNION { found(p, v) : v \in 1..Len(ProductCatalog[p].variations) } :
                 p \in 1..Len(ProductCatalog) }

QuantityVerbs ==
    << <<"o", "r", "d", "e", "r">>, <<"b", "u", "y">>, <<"n", "e", "e", "d">>, <<"w", "a", "n", "t">>, <<"r", "e", "q", "u", "i", "r", "e">>, <<"p", "u", "r", "c", "h", "a", "s", "e">> >>

(* words that may not follow a standalone number *)
NotQuantityUnits ==
    << <<"d", "a", "y">>, <<"w", "e", "e", "k">>, <<"h", "o", "u", "r">>, <<"m", "i", "n", "u", "t", "e">>, <<"$">>, <<"d", "o", "l", "l", "a", "r">>, <<"%">>, <<"p", "e", "r", "c", "e", "n", "t">> >>

(* ------------------------------------------------------------------ *)
(* float(clean) * multiplier and int(...) of _normalize_value.  A       *)
(* natural number is the list of its digits to the base LimbBase, the  *)
(* most significant first and <<>> for zero; a float is [m, e] for     *)
(* m * 2^e with m of at most MantissaBits bits.                        *)
(* ------------------------------------------------------------------ *)

MantissaBits == 53

LimbBits == 15

LimbBase == 2 ^ LimbBits

RECURSIVE SmallLimbs(_)
SmallLimbs(n) ==
    IF n = 0 THEN <<>> ELSE SmallLimbs(n \div LimbBase) \o <<n % LimbBase>>

(* limbs * m + carry for small m >= 1 and carry *)
RECURSIVE MulAdd(_, _, _)
MulAdd(limbs, m, carry) ==
    IF limbs = <<>> THEN SmallLimbs(carry)
    ELSE LET t == limbs[Len(limbs)] * m + carry
         IN MulAdd(SubSeq(limbs, 1, Len(limbs) - 1), m, t \div LimbBase)
            \o <<t % LimbBase>>

RECURSIVE TrimZeros(_)
TrimZeros(limbs) ==
    IF limbs /= <<>> /\ Head(limbs) = 0 THEN TrimZeros(Tail(limbs)) ELSE limbs

(* long division of limbs by a small d from limb k on, rem carried in: the
   quotient and the remainder *)
RECURSIVE DivModFrom(_, _, _, _)
DivModFrom(limbs, d, k, rem) ==
    IF k > Len(limbs) THEN [q |-> <<>>, r |-> rem]
    ELSE LET t == rem * LimbBase + limbs[k]
             rest == DivModFrom(limbs, d, k + 1, t % d)
         IN [q |-> <<t \div d>> \o rest.q, r |-> rest.r]

Trimmed(parts) == [q |-> TrimZeros(parts.q), r |-> parts.r]

DivMod(limbs, d) == Trimmed(DivModFrom(limbs, d, 1, 0))

(* limbs * 2^s *)
RECURSIVE ShiftLeft(_, _)
ShiftLeft(limbs, s) ==
    IF s <= 0 THEN limbs
    ELSE ShiftLeft(MulAdd(limbs, 2 ^ Min(s, LimbBits), 0), s - Min(s, LimbBits))

(* a quotient of which a nonzero remainder may have been cut off before *)
AlsoCut(rest, cut) == [q |-> rest.q, cut |-> cut \/ rest.cut]

(* limbs / 2^s: the whole part, and whether anything was cut off *)
RECURSIVE ShiftRight(_, _)
RECURSIVE ShiftRest(_, _)
ShiftRest(parts, s) == AlsoCut(ShiftRight(parts.q, s), parts.r /= 0)

ShiftRight(limbs, s) ==
    IF s <= 0 THEN [q |-> limbs, cut |-> FALSE]
    ELSE ShiftRest(DivMod(limbs, 2 ^ Min(s, LimbBits)), s - Min(s, LimbBits))

(* limbs / 10^d: the whole part, and whether anything was cut off *)
RECURSIVE DivPow10(_, _)
RECURSIVE DivRest(_, _)
DivRest(parts, d) == AlsoCut(DivPow10(parts.q, d), parts.r /= 0)

DivPow10(limbs, d) ==
    IF d <= 0 THEN [q |-> limbs, cut |-> FALSE]
    ELSE DivRest(DivMod(limbs, 10), d - 1)

RECURSIVE SmallBitLen(_)
SmallBitLen(n) == IF n = 0 THEN 0 ELSE 1 + SmallBitLen(n \div 2)

(* int.bit_length() *)
BitLen(limbs) ==
    IF limbs = <<>> THEN 0
    ELSE LimbBits * (Len(limbs) - 1) + SmallBitLen(Head(limbs))

IsOdd(limbs) == limbs /= <<>> /\ limbs[Len(limbs)] % 2 = 1

(* the number written by a string of decimal digits *)
RECURSIVE DigitsLimbs(_)
DigitsLimbs(digits) ==
    IF digits = <<>> THEN <<>>
    ELSE MulAdd(DigitsLimbs(SubSeq(digits, 1, Len(digits) - 1)), 10,
                DigitValue(digits[Len(digits)]))

(* str(n) of an int *)
RECURSIVE LimbsStr(_)
RECURSIVE DigitsOf(_)
DigitsOf(parts) ==
    IF parts.q = <<>> THEN <<DigitChars[parts.r + 1]>>
    ELSE LimbsStr(parts.q) \o <<DigitChars[parts.r + 1]>>

LimbsStr(limbs) == DigitsOf(DivMod(limbs, 10))

(* top, or the number after it when the bits cut off below it are more than
   half a unit, or just half and top is odd *)
RoundTop(top, half, above, drop) ==
    [m |-> IF half /\ (above \/ IsOdd(top)) THEN MulAdd(top, 1, 1) ELSE top, e |-> drop]

(* low holds one bit more than the mantissa: that bit is the half *)
RoundLow(low, sticky, drop) ==
    RoundTop(DivMod(low.q, 2).q, IsOdd(low.q), sticky \/ low.cut, drop)

(* round to nearest, ties to even: the float nearest to the number limbs,
   or to a number just above it when sticky *)
RoundBits(limbs, sticky) ==
    IF BitLen(limbs) <= MantissaBits THEN [m |-> limbs, e |-> 0]
    ELSE RoundLow(ShiftRight(limbs, BitLen(limbs) - MantissaBits - 1), sticky,
                  BitLen(limbs) - MantissaBits)

(* near with its exponent moved by e *)
Rescaled(near, e) == [m |-> near.m, e |-> near.e + e]

(* the float nearest to the quotient parts of a number scaled by 2^shift *)
Nearest(parts, shift) == Rescaled(RoundBits(parts.q, parts.cut), 0 - shift)

(* float("<digits>.<d digits>"): the float nearest to n / 10^d *)
ParseFloat(n, d) ==
    IF n = <<>> THEN [m |-> <<>>, e |-> 0]
    ELSE Nearest(DivPow10(ShiftLeft(n, MantissaBits + 4 * d + 1), d),
                 MantissaBits + 4 * d + 1)

(* val * multiplier *)
FloatTimes(val, multiplier) ==
    IF val.m = <<>> THEN val
    ELSE Rescaled(RoundBits(MulAdd(val.m, multiplier, 0), FALSE), val.e)

(* int(val): the fraction is cut off *)
FloatInt(val) ==
    IF val.e >= 0 THEN ShiftLeft(val.m, val.e) ELSE ShiftRight(val.m, 0 - val.e).q

NotComma(c) == c /= ","

(* a text float() reads: digits, with at most one point among them *)
IsDecimal(clean) ==
    /\ clean /= <<>>
    /\ \A i \in 1..Len(clean) : IsDigitChar(clean[i]) \/ clean[i] = "."
    /\ \E i \in 1..Len(clean) : IsDigitChar(clean[i])
    /\ Cardinality({i \in 1..Len(clean) : clean[i] = "."}) <= 1

NotPoint(c) == c /= "."

(* the digits after the point *)
FractionLen(clean) ==
    IF HasChar(clean, ".")
    THEN Len(clean) - (CHOOSE i \in 1..Len(clean) : clean[i] = ".")
    ELSE 0

EndsWithK(clean) == clean /= <<>> /\ clean[Len(clean)] = "k"

(* str(int(float(clean) * multiplier)), value when float() raises *)
Converted(value, clean, multiplier) ==
    IF IsDecimal(clean)
    THEN LimbsStr(FloatInt(FloatTimes(ParseFloat(DigitsLimbs(SelectSeq(clean, NotPoint)),
                                                 FractionLen(clean)),
                                      multiplier)))
    ELSE value

(* the k suffix taken off, as a multiplier *)
Multiplied(value, clean) ==
    Converted(value,
              IF EndsWithK(clean) THEN SubSeq(clean, 1, Len(clean) - 1) ELSE clean,
              IF EndsWithK(clean) THEN 1000 ELSE 1)

(* the stripped value, lower-cased, without commas and spaces *)
Cleaned(value) == Multiplied(value, RemoveSpaces(SelectSeq(Lower(value), NotComma)))

(* _normalize_value for a quantity *)
NormalizeQuantity(value) == Cleaned(Strip(value))

(* the ends of (?:[.,]\d{1,3})*[kK]? begun at index p, in the order the
   regex tries them *)
RECURSIVE TailEnds(_, _)
TailEnds(s, p) ==
    LET run == IF p < Len(s) /\ s[p + 1] \in {".", ","}
               THEN Min(3, DigitRunLen(s, p + 1)) ELSE 0
        more(c) == IF c <= run THEN TailEnds(s, p + 1 + c) ELSE <<>>
        k == IF p < Len(s) /\ s[p + 1] = "k" THEN <<p + 1>> ELSE <<>>
    IN more(3) \o more(2) \o more(1) \o k \o <<p>>

(* the ends of \d{1,7}(?:[.,]\d{1,3})*[kK]? begun at index j with at most d
   leading digits, in the order the regex tries them *)
RECURSIVE NumberEndsFrom(_, _, _)
NumberEndsFrom(s, j, d) ==
    IF d < 1 THEN <<>> ELSE TailEnds(s, j + d) \o NumberEndsFrom(s, j, d - 1)

NumberEnds(s, j) == NumberEndsFrom(s, j, Min(7, DigitRunLen(s, j)))

UnitStems == << <<"u", "n", "i", "t">>, <<"p", "c">>, <<"p", "i", "e", "c", "e">>, <<"i", "t", "e", "m">> >>

(* the length of (?:units?|pcs?|pieces?|items?|ea) at index p, 0 without one *)
UnitLen(s, p) ==
    IF \E u \in 1..Len(UnitStems) : MatchAt(s, UnitStems[u], p)
    THEN LET u == CHOOSE w \in 1..Len(UnitStems) : MatchAt(s, UnitStems[w], p)
             e == p + Len(UnitStems[u])
         IN Len(UnitStems[u]) + (IF e < Len(s) /\ s[e + 1] = "s" THEN 1 ELSE 0)
    ELSE IF MatchAt(s, <<"e", "a">>, p) THEN 2
    ELSE 0

(* the length of \s*(?:units?|...) after a number that ends at e *)
UnitAfter(s, e) == UnitLen(s, e + SpaceRunLen(s, e))

(* the first of the ends a unit follows, the ends in the order the regex
   tries them: <<>> when no end has one *)
RECURSIVE FirstWithUnit(_, _)
FirstWithUnit(s, ends) ==
    IF ends = <<>> THEN <<>>
    ELSE IF UnitAfter(s, Head(ends)) > 0 THEN <<Head(ends)>>
    ELSE FirstWithUnit(s, Tail(ends))

(* the match at index j given the end of its number *)
UnitMatch(s, j, e) ==
    [start |-> j, number_end |-> e, end |-> e + SpaceRunLen(s, e) + UnitAfter(s, e)]

(* the match of the first quantity pattern at index j: where its number
   ends and where it ends, <<>> without a match *)
UnitMatchAt(s, j) ==
    IF FirstWithUnit(s, NumberEnds(s, j)) = <<>> THEN <<>>
    ELSE <<UnitMatch(s, j, Head(FirstWithUnit(s, NumberEnds(s, j))))>>

(* re.finditer of the first quantity pattern from index pos on *)
RECURSIVE UnitMatchesFrom(_, _)
UnitMatchesFrom(s, pos) ==
    IF pos >= Len(s) THEN {}
    ELSE LET here == UnitMatchAt(s, pos)
         IN IF here = <<>> THEN UnitMatchesFrom(s, pos + 1)
            ELSE {here[1]} \cup UnitMatchesFrom(s, here[1].end)

(* the quantity patterns "500 units" (first), "need 1000" (second) and
   standalone number (fifth) *)
QuantityMatches(text) ==
    LET text_lower == Lower(text)
        n == Len(text_lower)
        withUnit ==
            { Entity("quantity",
                     NormalizeQuantity(SubSeq(text, m.start + 1, m.number_end)),
                     m.start, m.end, 95, <<1, m.start>>) :
                m \in UnitMatchesFrom(text_lower, 0) }
        digitsAt(w, j) ==
            j + Len(QuantityVerbs[w]) + SpaceRunLen(text_lower, j + Len(QuantityVerbs[w]))
        numberEnd(w, j) == Head(NumberEnds(text_lower, digitsAt(w, j)))
        afterVerb ==
            UNION { { Entity("quantity",
                             NormalizeQuantity(SubSeq(text, digitsAt(w, k) + 1,
                                                      numberEnd(w, k))),
                             k, numberEnd(w, k), 85, <<2, k>>) :
                      k \in {j \in 0..n :
                               /\ MatchAt(text_lower, QuantityVerbs[w], j)
                               /\ SpaceRunLen(text_lower, j + Len(QuantityVerbs[w])) >= 1
                               /\ DigitRunLen(text_lower, digitsAt(w, j)) >= 1} } :
                    w \in 1..Len(QuantityVerbs) }
        standalone ==
            { Entity("quantity",
                     NormalizeQuantity(SubSeq(text, k + 1, k + DigitRunLen(text_lower, k))),
                     k, k + DigitRunLen(text_lower, k), 60, <<5, k>>) :
                k \in {j \in 0..n :
                         /\ DigitRunLen(text_lower, j) \in 3..6
                         /\ BoundaryBefore(text_lower, j)
                         /\ BoundaryAfter(text_lower, j + DigitRunLen(text_lower, j))
                         /\ LET e == j + DigitRunLen(text_lower, j)
                            IN \A u \in 1..Len(NotQuantityUnits) :
                                  ~MatchAt(text_lower, NotQuantityUnits[u],
                                           e + SpaceRunLen(text_lower, e))} }
    IN withUnit \cup afterVerb \cup standalone

(* str.replace(p, v) *)
RECURSIVE ReplaceFrom(_, _, _, _)
ReplaceFrom(s, p, v, k) ==
    IF k >= Len(s) THEN <<>>
    ELSE IF MatchAt(s, p, k) THEN v \o ReplaceFrom(s, p, v, k + Len(p))
    ELSE <<s[k + 1]>> \o ReplaceFrom(s, p, v, k + 1)

(* _normalize_value for an RFQ id: upper case, no spaces, "REQ-" *)
NormalizeRfqId(value) ==
    LET norm == RemoveSpaces(Upper(value))
    IN IF Contains(norm, <<"R", "E", "Q">>) /\ ~HasChar(norm, "-")
       THEN ReplaceFrom(norm, <<"R", "E", "Q">>, <<"R", "E", "Q", "-">>, 0)
       ELSE norm

RfqPrefixes == << [prefix |-> <<"r", "e", "q">>, confidence |-> 95], [prefix |-> <<"r", "f", "q">>, confidence |-> 90] >>

(* the rfq_id patterns (?:#)?(REQ[-\s]?\d{3,10}) and (?:#)?(RFQ[-\s]?\d{3,10}) *)
RfqIdMatches(text) ==
    LET text_lower == Lower(text)
        sep(j) == IF j + 3 < Len(text_lower) /\ text_lower[j + 4] \in {"-", " "} THEN 1 ELSE 0
        digits(j) == Min(10, DigitRunLen(text_lower, j + 3 + sep(j)))
        hash(j) == IF j > 0 /\ text_lower[j] = "#" THEN 1 ELSE 0
    IN UNION { { Entity("rfq_id",
                        NormalizeRfqId(SubSeq(text, k + 1, k + 3 + sep(k) + digits(k))),
                        k - hash(k), k + 3 + sep(k) + digits(k),
                        RfqPrefixes[r].confidence, <<r, k>>) :
                   k \in {j \in 0..Len(text_lower) :
                            /\ MatchAt(text_lower, RfqPrefixes[r].prefix, j)
                            /\ DigitRunLen(text_lower, j + 3 + sep(j)) >= 3} } :
                 r \in 1..Len(RfqPrefixes) }

RECURSIVE OrderBefore(_, _)
OrderBefore(a, b) ==
    /\ a /= <<>>
    /\ b /= <<>>
    /\ \/ Head(a) < Head(b)
       \/ Head(a) = Head(b) /\ OrderBefore(Tail(a), Tail(b))

(* EntityExtractor._deduplicate_entities *)
Deduplicate(found) ==
    {e \in found :
        ~\E d \in found :
            /\ d.type = e.type
            /\ Lower(d.value) = Lower(e.value)
            /\ \/ d.confidence > e.confidence
               \/ d.confidence = e.confidence /\ OrderBefore(d.order, e.order)}

Overlap(e1, e2) ==
    (IF e1.start >= e2.start THEN e1.start ELSE e2.start)
        < (IF e1.end <= e2.end THEN e1.end ELSE e2.end)

(* the entities of a set as the list extract_all flattens them into *)
RECURSIVE InOrder(_)
InOrder(found) ==
    IF found = {} THEN <<>>
    ELSE LET first == CHOOSE e \in found :
                          \A d \in found : d = e \/ OrderBefore(e.order, d.order)
         IN <<first>> \o InOrder(found \ {first})

(* variant: the more confident of two intersecting entities stays, whatever
   their lengths *)
Loser_ConfidenceFirst(e1, e2, i, j) ==
    IF e1.confidence > e2.confidence THEN j ELSE i

(* the index _resolve_overlaps adds to to_remove for the intersecting pair
   e1 = entities[i], e2 = entities[j]: favor longer string, then higher
   confidence *)
Loser(e1, e2, i, j) ==
    LET len1 == e1.end - e1.start
        len2 == e2.end - e2.start
    IN IF len1 > len2 THEN j
       ELSE IF len2 > len1 THEN i
       ELSE IF e1.confidence > e2.confidence THEN j
       ELSE i

(* the pair loop of _resolve_overlaps from the pair (i, j) on, indexes from 1:
   the set to_remove it ends with *)
RECURSIVE PairLoop(_, _, _, _)
PairLoop(entities, i, j, removed) ==
    IF i > Len(entities) THEN removed
    ELSE IF j > Len(entities) THEN PairLoop(entities, i + 1, 1, removed)
    ELSE IF i = j \/ j \in removed \/ ~Overlap(entities[i], entities[j])
    THEN PairLoop(entities, i, j + 1, removed)
    ELSE PairLoop(entities, i, j + 1,
                  removed \cup {Loser(entities[i], entities[j], i, j)})

(* [e for i, e in enumerate(entities) if i not in to_remove] *)
RECURSIVE Without(_, _, _)
Without(entities, removed, i) ==
    IF i > Len(entities) THEN <<>>
    ELSE (IF i \in removed THEN <<>> ELSE <<entities[i]>>)
         \o Without(entities, removed, i + 1)

(* EntityExtractor._resolve_overlaps; the greedy pass before the pair loop
   leaves nothing behind *)
resolve_overlaps(entities) ==
    Without(entities, PairLoop(entities, 1, 1, {}), 1)

ResolveOverlaps(found) ==
    LET resolved == resolve_overlaps(InOrder(found))
    IN {resolved[i] : i \in 1..Len(resolved)}

(* variant: the flattened list is returned as it is *)
extract_all_Unresolved(text) ==
    Deduplicate(QuantityMatches(text)) \cup Deduplicate(RfqIdMatches(text))
    \cup Deduplicate(ProductMatches(text))

(* EntityExtractor.extract_all *)
extract_all(text) ==
    ResolveOverlaps(Deduplicate(QuantityMatches(text)) \cup Deduplicate(RfqIdMatches(text))
                    \cup Deduplicate(ProductMatches(text)))

(* the entities of one type, and the first of them in list order *)
OfType(found, type) == {e \in found : e.type = type}

FirstOf(found, type) ==
    CHOOSE e \in OfType(found, type) :
        \A d \in OfType(found, type) : d = e \/ OrderBefore(e.order, d.order)

(* the best of a type: max(..., key=confidence), the first among equals *)
BestOf(found, type) ==
    CHOOSE e \in OfType(found, type) :
        \A d \in OfType(found, type) :
            \/ d = e
            \/ e.confidence > d.confidence
            \/ e.confidence = d.confidence /\ OrderBefore(e.order, d.order)

(* ------------------------------------------------------------------ *)
(* ConversationContext.entities: key -> a string, a list holding one   *)
(* string, or nothing                                                  *)
(* ------------------------------------------------------------------ *)

CtxKeys ==
    {"product", "quantity", "rfq_id", "company", "email", "timeline", "order_number",
     "large_order_check", "price", "specs", "date"}

Str(v) == [list |-> FALSE, v |-> v]

Lst(v) == [list |-> TRUE, v |-> v]

NoValue == Str(None)

NoContext == [k \in CtxKeys |-> NoValue]

(* key in self.entities *)
Has(ents, key) == key \in DOMAIN ents /\ ents[key] /= NoValue

(* str(value) *)
StrOf(value) == IF value.list THEN ListStr(value.v) ELSE value.v

reference_words ==
    << [word |-> <<"i", "t">>, types |-> <<"product", "item">>],
       [word |-> <<"t", "h", "a", "t">>, types |-> <<"product", "item">>],
       [word |-> <<"t", "h", "i", "s">>, types |-> <<"product", "item">>],
       [word |-> <<"t", "h", "e", " ", "p", "r", "o", "d", "u", "c", "t">>, types |-> <<"product">>],
       [word |-> <<"t", "h", "e", " ", "i", "t", "e", "m">>, types |-> <<"product", "item">>],
       [word |-> <<"t", "h", "e", "m">>, types |-> <<"product">>],
       [word |-> <<"t", "h", "o", "s", "e">>, types |-> <<"product">>],
       [word |-> <<"t", "h", "e", " ", "o", "r", "d", "e", "r">>, types |-> <<"order_number">>],
       [word |-> <<"m", "y", " ", "o", "r", "d", "e", "r">>, types |-> <<"order_number">>] >>

(* the loop of resolve_reference from the k-th referring phrase on; a list
   value has no lower() and ends the call with AttributeError *)
RECURSIVE ResolveFrom(_, _, _, _)
ResolveFrom(ents, text_lower, resolved_text, k) ==
    IF k > Len(reference_words)
    THEN [text |-> resolved_text, raised |-> FALSE]
    ELSE LET ref == reference_words[k]
             present == {i \in 1..Len(ref.types) : Has(ents, ref.types[i])}
         IN IF ~WordSearch(text_lower, ref.word) \/ present = {}
            THEN ResolveFrom(ents, text_lower, resolved_text, k + 1)
            ELSE LET entity_value ==
                         ents[ref.types[CHOOSE i \in present : \A j \in present : i <= j]]
                 IN IF entity_value.list
                    THEN [text |-> resolved_text, raised |-> TRUE]
                    ELSE IF Contains(text_lower, Lower(entity_value.v))
                    THEN ResolveFrom(ents, text_lower, resolved_text, k + 1)
                    ELSE LET replaced == ReplaceWord(resolved_text, ref.word, entity_value.v)
                         IN ResolveFrom(ents, Lower(replaced), replaced, k + 1)

(* variant: the referring phrases are looked for in the text as typed *)
resolve_reference_CaseSensitive(ents, text) == ResolveFrom(ents, text, text, 1)

(* ConversationContext.resolve_reference, after its expiry check *)
resolve_reference(ents, text) == ResolveFrom(ents, Lower(text), text, 1)

(* the texts a turn can pass on: an utterance, or one with a stored value put
   in place of a referring phrase, up to MaxTextLen characters *)
MaxTextLen == 40

V_rfq == <<"R", "E", "Q", "-", "1", "2", "3", "4", "5">>

(* the values extract_all finds in the utterances *)
ExtractedValues == {V_bearing, V_actuator, T_500, V_rfq}

WithStripped(values) == values \cup {Strip(v) : v \in values}

(* U_it with a stored value in place of its referring word *)
WithSubstituted(values) ==
    values \cup {t \in {<<"w", "h", "a", "t", " ", "i", "s", " ", "t", "h", "e", " ", "p", "r", "i", "c", "e", " ", "o", "f", " ">> \o v : v \in values \ {None}} :
                    Len(t) <= MaxTextLen}

BaseValues ==
    WithStripped(Texts \cup Utterances \cup ExtractedValues
                 \cup {e[t] : e \in EntityMaps, t \in EntityTypes})

PipeTexts == WithSubstituted(BaseValues)

T_neg5 == <<"-", "5">>
T_abc == <<"a", "b", "c">>
T_Skip == <<" ", "S", "k", "i", "p", " ">>
T_none == <<"n", "o", "n", "e">>
T_na == <<"N", "/", "A">>
T_week == <<"n", "e", "x", "t", " ", "w", "e", "e", "k">>

(* further answers to the prompts of a flow *)
SlotAnswers == {T_neg5, T_abc, T_skip, T_Skip, T_none, T_na, T_week}

(* the texts resolve_reference makes of an utterance *)
ResolvedTexts ==
    [u \in Utterances |->
        {u} \cup
        {t \in {resolve_reference([NoContext EXCEPT !["product"] = Str(v)], u).text :
                    v \in BaseValues \ {None}} : Len(t) <= MaxTextLen}]

ExtractMemo == [t \in PipeTexts |-> extract_all(t)]

(* ------------------------------------------------------------------ *)
(* The text computations, evaluated once over the values turns carry   *)
(* ------------------------------------------------------------------ *)

Validators == {"positive_int", "int_ge_100", "min_len_2", "email", "order_number", "default"}

Normalizers == {"digits_only", "lower_strip", "upper_nospace", "default"}

RawValues == WithStripped(PipeTexts \cup SlotAnswers)

WithNormalized(values) ==
    values \cup {normalize([normalizer |-> k], v) : k \in Normalizers, v \in values}

StoredValues == WithNormalized(RawValues)

ValidateMemo ==
    [k \in Validators |-> [v \in StoredValues |-> validate([validator |-> k], v)]]

NormalizeMemo ==
    [k \in Normalizers |-> [v \in RawValues |-> normalize([normalizer |-> k], v)]]

StripMemo == [v \in RawValues |-> Strip(v)]

LowerStripMemo == [v \in RawValues |-> Strip(Lower(v))]

LowerMemo == [v \in StoredValues |-> Lower(v)]

(* ------------------------------------------------------------------ *)
(* DialogFlow: the mutable part of a flow definition                   *)
(* ------------------------------------------------------------------ *)

(* DialogFlow.reset: every slot empty with no attempts, status NOT_STARTED *)
ResetFlow(name) ==
    [status |-> "NOT_STARTED",
     started_at |-> FALSE,
     value |-> [i \in 1..SlotCount(name) |-> None],
     attempts |-> [i \in 1..SlotCount(name) |-> 0]]

SlotIndex(name, slot_name) ==
    CHOOSE i \in 1..SlotCount(name) :
        /\ SlotDef(name, i).name = slot_name
        /\ \A j \in 1..(i - 1) : SlotDef(name, j).name /= slot_name

(* 0 stands for Python's None result *)
get_next_required_empty_slot(name, f) ==
    LET open == {i \in 1..SlotCount(name) : SlotDef(name, i).required /\ f.value[i] = None}
    IN IF open = {} THEN 0 ELSE CHOOSE i \in open : \A j \in open : i <= j

(* variant: optional slots are never asked for *)
get_next_empty_slot_RequiredOnly(name, f) == get_next_required_empty_slot(name, f)

get_next_empty_slot(name, f) ==
    LET req == get_next_required_empty_slot(name, f)
        opt == {i \in 1..SlotCount(name) : ~SlotDef(name, i).required /\ f.value[i] = None}
    IN IF req /= 0 THEN req
       ELSE IF opt = {} THEN 0 ELSE CHOOSE i \in opt : \A j \in opt : i <= j

get_filled_slots(name, f) ==
    LET names == {SlotDef(name, i).name : i \in {k \in 1..SlotCount(name) : f.value[k] /= None}}
    IN [n \in names |-> f.value[SlotIndex(name, n)]]

EmptySlots == [n \in {} |-> None]

(* variant: only a failed attempt is counted *)
fill_slot_CountsFailuresOnly(name, f, slot_name, value) ==
    LET i == SlotIndex(name, slot_name)
        normalized == NormalizeMemo[SlotDef(name, i).normalizer][value]
    IN IF ValidateMemo[SlotDef(name, i).validator][normalized]
       THEN [flow |-> [f EXCEPT !.value[i] = normalized], ok |-> TRUE]
       ELSE [flow |-> [f EXCEPT !.attempts[i] = @ + 1], ok |-> FALSE]

(* DialogFlow.fill_slot: count the attempt, normalize, then validate *)
fill_slot(name, f, slot_name, value) ==
    LET i == SlotIndex(name, slot_name)
        normalized == NormalizeMemo[SlotDef(name, i).normalizer][value]
        counted == [f EXCEPT !.attempts[i] = @ + 1]
    IN IF ValidateMemo[SlotDef(name, i).validator][normalized]
       THEN [flow |-> [counted EXCEPT !.value[i] = normalized], ok |-> TRUE]
       ELSE [flow |-> counted, ok |-> FALSE]

(* ------------------------------------------------------------------ *)
(* Results of process_turn                                             *)
(* ------------------------------------------------------------------ *)

NoResponse == [kind |-> "None", slot |-> "None", filled |-> EmptySlots, price |-> "None"]

Response(kind, slot, filled) ==
    [kind |-> kind, slot |-> slot, filled |-> filled, price |-> "None"]

(* the dict a handler returns; current_slot and error are optional keys *)
Result(response, flow_status, filled_slots, flow_name, current_slot, error) ==
    [response |-> response, flow_status |-> flow_status, filled_slots |-> filled_slots,
     action |-> "None", flow_name |-> flow_name, current_slot |-> current_slot,
     error |-> error]

(* process_turn returning None *)
NoResult == Result(NoResponse, "None", EmptySlots, "None", "None", FALSE)

(* ------------------------------------------------------------------ *)
(* DialogManager: c = [flows, active_flows, trace, fill, callbacks,    *)
(* on_complete, raises, raised]                                        *)
(* trace lists the status assignments of the turn, fill the fill_slot   *)
(* call of the turn, callbacks the on_complete invocations             *)
(* ------------------------------------------------------------------ *)

SetStatus(c, name, status) ==
    [c EXCEPT !.flows[name].status = status,
              !.trace = Append(@, <<c.flows[name].status, status, "set">>)]

ResetIn(c, name) ==
    [c EXCEPT !.flows[name] = ResetFlow(name),
              !.trace = Append(@, <<c.flows[name].status, "NOT_STARTED", "reset">>)]

has_active_flow(active, s) == active[s] /= NoFlow

(* first registered flow whose trigger_intents contain the intent, or NoFlow *)
get_flow_for_intent(intent) ==
    LET hits == {i \in 1..Len(RegisteredFlows) : intent \in RegisteredFlows[i].trigger_intents}
    IN IF hits = {} THEN NoFlow
       ELSE RegisteredFlows[CHOOSE i \in hits : \A j \in hits : i <= j].name

(* variant: the flow is deregistered but not reset *)
EndFlow_KeepsFlowState(c, s) ==
    IF has_active_flow(c.active_flows, s)
    THEN [c EXCEPT !.active_flows[s] = NoFlow]
    ELSE c

(* DialogManager._end_flow *)
EndFlow(c, s) ==
    IF has_active_flow(c.active_flows, s)
    THEN [ResetIn(c, c.active_flows[s]) EXCEPT !.active_flows[s] = NoFlow]
    ELSE c

(* variant: a failure of the callback is not caught and ends the turn *)
CompleteFlow_CallbackUncaught(c, name, s) ==
    LET filled == get_filled_slots(name, c.flows[name])
        response == IF FlowDef(name).completion_message
                    THEN Response("completion_message", "None", filled)
                    ELSE NoResponse
        called == IF name \in c.on_complete
                  THEN [c EXCEPT !.callbacks = @ + 1, !.raised = c.raises]
                  ELSE c
    IN IF called.raised
       THEN [c |-> called, result |-> NoResult]
       ELSE [c |-> EndFlow(SetStatus(called, name, "COMPLETED"), s),
             result |-> Result(response, "COMPLETED", filled, name, "None", FALSE)]

(* variant: the flow is reset but the session stays registered *)
CompleteFlow_KeepsRegistration(c, name, s) ==
    LET filled == get_filled_slots(name, c.flows[name])
        response == IF FlowDef(name).completion_message
                    THEN Response("completion_message", "None", filled)
                    ELSE NoResponse
    IN [c |-> ResetIn(SetStatus(c, name, "COMPLETED"), name),
        result |-> Result(response, "COMPLETED", filled, name, "None", FALSE)]

(* DialogManager._complete_flow *)
CompleteFlow(c, name, s) ==
    LET filled == get_filled_slots(name, c.flows[name])
        response == IF FlowDef(name).completion_message
                    THEN Response("completion_message", "None", filled)
                    ELSE NoResponse
        called == IF name \in c.on_complete
                  THEN [c EXCEPT !.callbacks = @ + 1, !.raised = c.raises]
                  ELSE c
    IN [c |-> EndFlow(SetStatus(called, name, "COMPLETED"), s),
        result |-> Result(response, "COMPLETED", filled, name, "None", FALSE)]

(* DialogManager._cancel_flow; reason "None" gives the generic acknowledgment *)
CancelFlow_ReportsSlots(c, name, s, reason) ==
    [c |-> EndFlow(SetStatus(c, name, "CANCELLED"), s),
     result |-> Result(Response(IF reason = "None" THEN "cancel_ack" ELSE reason,
                                "None", EmptySlots),
                       "CANCELLED", get_filled_slots(name, c.flows[name]), name,
                       "None", FALSE)]

CancelFlow(c, name, s, reason) ==
    [c |-> EndFlow(SetStatus(c, name, "CANCELLED"), s),
     result |-> Result(Response(IF reason = "None" THEN "cancel_ack" ELSE reason,
                                "None", EmptySlots),
                       "CANCELLED", EmptySlots, name, "None", FALSE)]

mock_prices ==
    << <<<<"s", "e", "r", "v", "o">>, "$450.00">>,
       <<<<"m", "o", "t", "o", "r">>, "$450.00">>,
       <<<<"f", "i", "b", "e", "r">>, "$120.00">>,
       <<<<"c", "a", "b", "l", "e">>, "$12.00/m">>,
       <<<<"a", "c", "t", "u", "a", "t", "o", "r">>, "$85.00">>,
       <<<<"s", "e", "n", "s", "o", "r">>, "$45.00">>,
       <<<<"v", "a", "l", "v", "e">>, "$60.00">> >>

price_lookup(product_val) ==
    LET hits == {i \in 1..Len(mock_prices) : Contains(product_val, mock_prices[i][1])}
    IN IF hits = {} THEN "$TBD"
       ELSE mock_prices[CHOOSE i \in hits : \A j \in hits : i <= j][2]

PriceMemo == [v \in StoredValues |-> price_lookup(Lower(v))]

(* variant: the status test inverted, so no confirmation is ever asked *)
NeedsConfirmation_Never(name, f) ==
    FlowDef(name).confirmation_prompt /\ f.status = "AWAITING_CONFIRMATION"

(* the confirmation step is due: a template exists and was not shown yet *)
NeedsConfirmation(name, f) ==
    FlowDef(name).confirmation_prompt /\ f.status /= "AWAITING_CONFIRMATION"

(* DialogManager._get_next_prompt *)
GetNextPrompt(c, name, s) ==
    LET f == c.flows[name]
        filled == get_filled_slots(name, f)
        next_slot == get_next_required_empty_slot(name, f)
        optional_slot == get_next_empty_slot(name, f)
    IN IF next_slot /= 0
       THEN LET sd == SlotDef(name, next_slot)
                prompt ==
                    IF name = "pricing_flow" /\ sd.name = "large_order_check"
                    THEN [Response("pricing_prompt", sd.name, filled)
                              EXCEPT !.price = IF "product" \in DOMAIN filled
                                               THEN PriceMemo[filled["product"]]
                                               ELSE "$TBD"]
                    ELSE IF f.attempts[next_slot] > 0 /\ sd.reprompt_message
                    THEN Response("reprompt_message", sd.name, EmptySlots)
                    ELSE Response("prompt", sd.name, EmptySlots)
            IN [c |-> c,
                result |-> Result(prompt, "IN_PROGRESS", filled, name, sd.name, FALSE)]
       ELSE IF optional_slot /= 0
       THEN [c |-> c,
             result |-> Result(Response("prompt", SlotDef(name, optional_slot).name, EmptySlots),
                               "IN_PROGRESS", filled, name,
                               SlotDef(name, optional_slot).name, FALSE)]
       ELSE IF NeedsConfirmation(name, f)
       THEN [c |-> SetStatus(c, name, "AWAITING_CONFIRMATION"),
             result |-> Result(Response("confirmation_prompt", "None", filled),
                               "AWAITING_CONFIRMATION", filled, name, "None", FALSE)]
       ELSE CompleteFlow(c, name, s)

(* variant: one more attempt is allowed *)
MaxAttemptsReached_Exceeded(attempts, max_attempts) == attempts > max_attempts

(* slot.attempts >= slot.max_attempts *)
MaxAttemptsReached(attempts, max_attempts) == attempts >= max_attempts

(* DialogManager._get_error_response *)
GetErrorResponse(c, name, i, s) ==
    IF MaxAttemptsReached(c.flows[name].attempts[i], SlotDef(name, i).max_attempts)
    THEN CancelFlow(c, name, s, "too_many_attempts")
    ELSE [c |-> c,
          result |-> Result(Response("error_message", SlotDef(name, i).name, EmptySlots),
                            "IN_PROGRESS", get_filled_slots(name, c.flows[name]), name,
                            SlotDef(name, i).name, TRUE)]

IsAffirmative(text_lower) == text_lower \in AffirmativeTokens

IsNegative(text_lower) == text_lower \in NegativeTokens

(* DialogManager._handle_confirmation *)
HandleConfirmation(c, name, user_text, s) ==
    LET text_lower == LowerStripMemo[user_text]
        filled == get_filled_slots(name, c.flows[name])
    IN IF IsAffirmative(text_lower)
       THEN CompleteFlow(c, name, s)
       ELSE IF IsNegative(text_lower)
       THEN [c |-> c,
             result |-> Result(Response("what_to_change", "None", EmptySlots),
                               "IN_PROGRESS", filled, name, "None", FALSE)]
       ELSE [c |-> c,
             result |-> Result(Response("please_confirm", "None", filled),
                               "AWAITING_CONFIRMATION", filled, name, "None", FALSE)]

(* entities maps an entity type to the value of its first entity, None when the
   key is absent *)
HasEntity(entities, slot) ==
    /\ slot.entity_type /= "None"
    /\ slot.entity_type \in DOMAIN entities
    /\ entities[slot.entity_type] /= None

IsCancel(user_text) ==
    \E k \in 1..Len(cancel_phrases) : Contains(Lower(user_text), cancel_phrases[k])

CancelMemo == [t \in RawValues |-> IsCancel(t)]

(* variant: only the word skip skips *)
IsSkip_SkipOnly(text_lower) == text_lower = <<"s", "k", "i", "p">>

(* user_text.lower().strip() in ["skip", "no", "none", "n/a"] *)
IsSkip(text_lower) == text_lower \in SkipTokens

(* the pre-fill of _start_flow: validate the raw value, store the normalized one *)
PrefillValue(slot, entities) ==
    IF HasEntity(entities, slot) /\ ValidateMemo[slot.validator][entities[slot.entity_type]]
    THEN NormalizeMemo[slot.normalizer][entities[slot.entity_type]]
    ELSE None

(* DialogManager._start_flow *)
StartFlow(c, name, entities, s) ==
    LET c1 == SetStatus(ResetIn(c, name), name, "IN_PROGRESS")
        c2 == [c1 EXCEPT !.flows[name].started_at = TRUE,
                         !.active_flows[s] = name,
                         !.flows[name].value =
                             [i \in 1..SlotCount(name) |->
                                 PrefillValue(SlotDef(name, i), entities)]]
    IN GetNextPrompt(c2, name, s)

(* DialogManager._continue_flow *)
ContinueFlow(c, name, entities, user_text, s) ==
    LET f == c.flows[name]
        current_slot == get_next_empty_slot(name, f)
    IN IF CancelMemo[user_text]
       THEN CancelFlow(c, name, s, "None")
       ELSE IF current_slot /= 0 /\ ~SlotDef(name, current_slot).required
                                /\ IsSkip(LowerStripMemo[user_text])
       THEN GetNextPrompt([c EXCEPT !.flows[name].value[current_slot] = SkipSentinel], name, s)
       ELSE IF f.status = "AWAITING_CONFIRMATION"
       THEN HandleConfirmation(c, name, user_text, s)
       ELSE IF current_slot /= 0
       THEN LET sd == SlotDef(name, current_slot)
                extracted == IF HasEntity(entities, sd) THEN entities[sd.entity_type] ELSE <<>>
                value == IF Truthy(extracted) THEN extracted ELSE StripMemo[user_text]
                filled == fill_slot(name, f, sd.name, value)
                c1 == [c EXCEPT !.flows[name] = filled.flow,
                                !.fill = [slot |-> sd.name, ok |-> filled.ok]]
            IN IF filled.ok
               THEN GetNextPrompt(c1, name, s)
               ELSE GetErrorResponse(c1, name, current_slot, s)
       ELSE GetNextPrompt(c, name, s)

(* variant: a triggering intent wins over the active flow *)
Route_IntentFirst(active, s, intent) ==
    IF intent /= "None" /\ get_flow_for_intent(intent) /= NoFlow THEN "start"
    ELSE IF has_active_flow(active, s) THEN "continue"
    ELSE "none"

(* which branch of process_turn a turn takes *)
Route(active, s, intent) ==
    IF has_active_flow(active, s) THEN "continue"
    ELSE IF intent /= "None" /\ get_flow_for_intent(intent) /= NoFlow THEN "start"
    ELSE "none"

(* DialogManager.process_turn *)
process_turn(c, intent, entities, user_text, s) ==
    LET route == Route(c.active_flows, s, intent)
    IN CASE route = "continue" ->
              ContinueFlow(c, c.active_flows[s], entities, user_text, s)
         [] route = "start" -> StartFlow(c, get_flow_for_intent(intent), entities, s)
         [] OTHER -> [c |-> c, result |-> NoResult]

(* ------------------------------------------------------------------ *)
(* ConversationContext.add_turn on the accumulated entities            *)
(* ------------------------------------------------------------------ *)

(* the product-scoped keys a topic shift deletes *)
dependent_attributes == {"quantity", "price", "specs", "date", "order_number"}

(* ConversationContext._check_expiry on the entities: idle tells whether more
   than expiry_minutes have passed since last_activity *)
check_expiry(ents, idle) == IF idle THEN NoContext ELSE ents

(* variant: the products are compared as written, not lower-cased *)
add_turn_CaseSensitive(ents, incoming) ==
    LET given == \E k \in CtxKeys : incoming[k] /= NoValue
        old_product == ents["product"]
        shift == /\ given
                 /\ incoming["product"] /= NoValue
                 /\ old_product /= NoValue
                 /\ (old_product.list \/ Truthy(old_product.v))
                 /\ StrOf(incoming["product"]) /= StrOf(old_product)
        kept == [k \in CtxKeys |->
                    IF shift /\ k \in dependent_attributes THEN NoValue ELSE ents[k]]
    IN [k \in CtxKeys |-> IF incoming[k] /= NoValue THEN incoming[k] ELSE kept[k]]

(* ConversationContext.add_turn after its expiry check: incoming maps the keys
   of the entities argument to their values, every other key to NoValue *)
add_turn(ents, incoming) ==
    LET given == \E k \in CtxKeys : incoming[k] /= NoValue
        old_product == ents["product"]
        shift == /\ given
                 /\ incoming["product"] /= NoValue
                 /\ old_product /= NoValue
                 /\ (old_product.list \/ Truthy(old_product.v))
                 /\ Lower(StrOf(incoming["product"])) /= Lower(StrOf(old_product))
        kept == [k \in CtxKeys |->
                    IF shift /\ k \in dependent_attributes THEN NoValue ELSE ents[k]]
    IN [k \in CtxKeys |-> IF incoming[k] /= NoValue THEN incoming[k] ELSE kept[k]]

(* ------------------------------------------------------------------ *)
(* lambda_handler: intent arbitration.  Confidences are in percent.    *)
(* ------------------------------------------------------------------ *)

HIGH_CONFIDENCE == 75

MEDIUM_CONFIDENCE == 55

Arb(intent, confidence, method) ==
    [intent |-> intent, confidence |-> confidence, method |-> method]

NoArb == Arb("None", 0, "None")

cancel_keywords ==
    << <<"c", "a", "n", "c", "e", "l">>, <<"s", "t", "o", "p">>, <<"a", "b", "o", "r", "t">>, <<"t", "e", "r", "m", "i", "n", "a", "t", "e">>, <<"e", "x", "i", "t">>, <<"q", "u", "i", "t">> >>

business_terms ==
    << <<"a", "c", "c", "o", "u", "n", "t", " ", "m", "a", "n", "a", "g", "e", "r">>, <<"s", "a", "l", "e", "s", " ", "r", "e", "p">>, <<"r", "e", "p", "r", "e", "s", "e", "n", "t", "a", "t", "i", "v", "e">>, <<"s", "u", "p", "p", "o", "r", "t">>, <<"h", "u", "m", "a", "n">>,
       <<"a", "g", "e", "n", "t">> >>

oos_phrases ==
    << <<"j", "o", "k", "e">>, <<"w", "e", "a", "t", "h", "e", "r">>, <<"p", "r", "e", "s", "i", "d", "e", "n", "t">>, <<"p", "o", "l", "i", "t", "i", "c", "s">>, <<"r", "e", "c", "i", "p", "e">>, <<"c", "a", "p", "i", "t", "a", "l", " ", "o", "f">>,
       <<"w", "h", "o", " ", "i", "s">>, <<"g", "a", "m", "e">>, <<"m", "o", "v", "i", "e">> >>

AnyIn(phrases, text_lower) == \E i \in 1..Len(phrases) : Contains(text_lower, phrases[i])

(* variant: the out-of-scope guard does not look at the extracted product *)
Guard_IgnoresProduct(original_text, resolved_text, detected_product) ==
    LET text_lower == Lower(resolved_text)
    IN IF Strip(original_text) = SystemSentinel
       THEN Arb("SYSTEM_RFQ_SUBMITTED", 100, "system_signal")
       ELSE IF \E i \in 1..Len(cancel_keywords) : cancel_keywords[i] \in Tokens(text_lower)
       THEN Arb("CONTROL_CANCEL", 100, "keyword_short_circuit")
       ELSE IF /\ ~AnyIn(business_terms, text_lower)
               /\ \E i \in 1..Len(oos_phrases) : WordSearch(text_lower, oos_phrases[i])
       THEN Arb("OUT_OF_SCOPE", 100, "keyword_short_circuit")
       ELSE NoArb

(* steps 6a-6c: system signal, cancel keyword, out-of-scope guard *)
Guard(original_text, resolved_text, detected_product) ==
    LET text_lower == Lower(resolved_text)
    IN IF Strip(original_text) = SystemSentinel
       THEN Arb("SYSTEM_RFQ_SUBMITTED", 100, "system_signal")
       ELSE IF \E i \in 1..Len(cancel_keywords) : cancel_keywords[i] \in Tokens(text_lower)
       THEN Arb("CONTROL_CANCEL", 100, "keyword_short_circuit")
       ELSE IF /\ detected_product = None
               /\ ~AnyIn(business_terms, text_lower)
               /\ \E i \in 1..Len(oos_phrases) : WordSearch(text_lower, oos_phrases[i])
       THEN Arb("OUT_OF_SCOPE", 100, "keyword_short_circuit")
       ELSE NoArb

continuity_words ==
    { <<"y", "e", "s">>, <<"n", "o">>, <<"y", "e", "p">>, <<"y", "e", "a", "h">>, <<"n", "o", "p", "e">>, <<"o", "k">>, <<"o", "k", "a", "y">>, <<"s", "u", "r", "e">>, <<"a", "l", "r", "i", "g", "h", "t">>,
      <<"c", "o", "r", "r", "e", "c", "t">> }

category_patterns ==
    << <<"w", "h", "a", "t", " ", "t", "y", "p", "e", "s">>, <<"w", "h", "a", "t", " ", "k", "i", "n", "d", "s">>, <<"w", "h", "i", "c", "h", " ", "t", "y", "p", "e", "s">>, <<"w", "h", "a", "t", " ", "o", "p", "t", "i", "o", "n", "s">>, <<"w", "h", "a", "t", " ", "p", "r", "o", "d", "u", "c", "t", "s">>,
       <<"l", "i", "s", "t", " ", "o", "f">>, <<"s", "h", "o", "w", " ", "m", "e", " ", "a", "l", "l">>, <<"w", "h", "a", "t", " ", "d", "o", " ", "y", "o", "u", " ", "h", "a", "v", "e">>, <<"w", "h", "a", "t", " ", "a", "r", "e", " ", "t", "h", "e">>, <<"c", "a", "t", "e", "g", "o", "r", "i", "e", "s">>,
       <<"v", "a", "r", "i", "e", "t", "y">>, <<"t", "y", "p", "e", "s", " ", "o", "f">>, <<"k", "i", "n", "d", "s", " ", "o", "f">>, <<"t", "y", "p", "e", " ", "o", "f">>, <<"k", "i", "n", "d", " ", "o", "f">>, <<"s", "o", "r", "t", " ", "o", "f">>,
       <<"s", "o", "r", "t", "s", " ", "o", "f">> >>

(* what the two matchers return for a text: the semantic match (or none) and
   the best fuzzy intent with its score *)
NoMatch == [intent |-> "None", confidence |-> 0]

Matchers(semantic_match, fuzzy_intent, fuzzy_score) ==
    [semantic |-> semantic_match, fuzzy |-> [intent |-> fuzzy_intent, score |-> fuzzy_score]]

MatcherOutcomes ==
    { Matchers(NoMatch, "None", 0),
      Matchers(NoMatch, "INFO_TRACK", 40),
      Matchers([intent |-> "INFO_PRICE", confidence |-> 90], "NAV_QUOTE", 100),
      Matchers(NoMatch, "NAV_QUOTE", 80),
      Matchers([intent |-> "INFO_CONTEXT", confidence |-> 58], "INFO_SHIPPING", 57),
      Matchers([intent |-> "INFO_BULK", confidence |-> 50], "INFO_MOQ", 100),
      Matchers(NoMatch, "NAV_RFQ", 100) }

(* variant: with both results the higher confidence wins *)
detect_intent_hybrid_HigherWins(text, m) ==
    LET text_lower == Strip(Lower(text))
        semantic_result == Arb(m.semantic.intent, m.semantic.confidence, "semantic")
        fuzzy_result == Arb(m.fuzzy.intent, m.fuzzy.score, "fuzzy")
        has_semantic == m.semantic /= NoMatch
        has_fuzzy == m.fuzzy.score >= 50
    IN IF text_lower \in continuity_words THEN Arb("None", 0, "continuity_word")
       ELSE IF AnyIn(category_patterns, text_lower) THEN Arb("None", 0, "category_question")
       ELSE IF has_semantic /\ m.semantic.confidence > 85 THEN semantic_result
       ELSE IF has_semantic /\ has_fuzzy
       THEN IF m.semantic.confidence >= m.fuzzy.score THEN semantic_result
            ELSE fuzzy_result
       ELSE IF has_semantic THEN semantic_result
       ELSE IF has_fuzzy THEN fuzzy_result
       ELSE Arb("None", m.fuzzy.score, "none")

(* _detect_intent_hybrid *)
detect_intent_hybrid(text, m) ==
    LET text_lower == Strip(Lower(text))
        semantic_result == Arb(m.semantic.intent, m.semantic.confidence, "semantic")
        fuzzy_result == Arb(m.fuzzy.intent, m.fuzzy.score, "fuzzy")
        has_semantic == m.semantic /= NoMatch
        has_fuzzy == m.fuzzy.score >= 50
    IN IF text_lower \in continuity_words THEN Arb("None", 0, "continuity_word")
       ELSE IF AnyIn(category_patterns, text_lower) THEN Arb("None", 0, "category_question")
       ELSE IF has_semantic /\ m.semantic.confidence > 85 THEN semantic_result
       ELSE IF has_semantic /\ has_fuzzy
       THEN IF m.semantic.confidence >= 60 THEN semantic_result
            ELSE IF m.semantic.confidence >= m.fuzzy.score THEN semantic_result
            ELSE fuzzy_result
       ELSE IF has_semantic THEN semantic_result
       ELSE IF has_fuzzy THEN fuzzy_result
       ELSE Arb("None", m.fuzzy.score, "none")

(* step 7, the condition: "shift", "same", or "raised" when the accumulated
   product is a list, which has no lower() *)
TopicShift(ents, detected_product) ==
    LET current_product == ents["product"]
    IN IF current_product = NoValue \/ detected_product = None THEN "same"
       ELSE IF current_product.list THEN "raised"
       ELSE IF ~Truthy(current_product.v) THEN "same"
       ELSE IF Lower(detected_product) /= Lower(current_product.v) THEN "shift"
       ELSE "same"

(* step 7, the intent of a topic shift *)
ShiftIntent(a, resolved_text) ==
    LET text_lower == Lower(resolved_text)
        default == IF a.confidence < 60 THEN Arb("PRODUCT_INQUIRY", 100, "topic_shift_correction")
                   ELSE Arb(a.intent, a.confidence, "topic_shift_correction")
        priced == IF Contains(text_lower, <<"p", "r", "i", "c", "e">>) \/ Contains(text_lower, <<"p", "r", "i", "c", "i", "n", "g">>)
                  THEN Arb("INFO_PRICE", 100, "topic_shift_correction")
                  ELSE default
    IN IF Contains(text_lower, <<"b", "u", "l", "k">>) \/ Contains(text_lower, <<"v", "o", "l", "u", "m", "e">>)
       THEN Arb("INFO_BULK", 100, "topic_shift_correction")
       ELSE priced

status_keywords ==
    << <<"s", "t", "a", "t", "u", "s">>, <<"t", "r", "a", "c", "k">>, <<"t", "r", "a", "c", "k", "i", "n", "g">>, <<"w", "h", "e", "r", "e", " ", "i", "s">>, <<"u", "p", "d", "a", "t", "e", " ", "o", "n">>, <<"c", "h", "e", "c", "k", " ", "o", "n">> >>

(* variant: the product correction also replaces a tracking intent *)
Correction_ProductOverTrack(k, a, text_lower, found, detected_product) ==
    CASE k = 1 /\ Contains(text_lower, <<"h", "o", "w", " ", "l", "o", "n", "g">>) /\ Contains(text_lower, <<"d", "e", "l", "i", "v", "e", "r">>) ->
              Arb("INFO_LEADTIME", 100, "keyword_correction")
      [] k = 2 /\ a.intent \in {"INFO_CONTEXT", "INFO_TRACK"} /\ detected_product /= None ->
              Arb("PRODUCT_INQUIRY", 100, "entity_correction")
      [] k = 3 /\ a.intent \in {"NAV_QUOTE", "NAV_RFQ"}
               /\ (Contains(text_lower, <<"p", "r", "i", "c", "e">>) \/ Contains(text_lower, <<"p", "r", "i", "c", "i", "n", "g">>)) ->
              Arb("INFO_PRICE", 100, "keyword_correction")
      [] k = 4 /\ OfType(found, "rfq_id") /= {} ->
              Arb("INFO_RFQ_STATUS", 100, "entity_correction")
      [] k = 5 /\ Contains(text_lower, <<"r", "f", "q">>) /\ Contains(text_lower, <<"s", "t", "a", "t", "u", "s">>) ->
              Arb("INFO_RFQ_STATUS", 100, "keyword_correction")
      [] k = 6 /\ a.intent \in {"NAV_QUOTE", "NAV_RFQ"} /\ AnyIn(status_keywords, text_lower) ->
              Arb("INFO_TRACK", 100, "keyword_correction")
      [] k = 7 /\ Contains(text_lower, <<"p", "r", "i", "c", "e", " ", "o", "f">>) ->
              Arb("INFO_PRICE", 100, "keyword_correction")
      [] OTHER -> a

(* variant: the lead time correction replaces a shipping intent only *)
Correction_LeadTimeOverShipping(k, a, text_lower, found, detected_product) ==
    CASE k = 1 /\ a.intent = "INFO_SHIPPING" /\ Contains(text_lower, <<"h", "o", "w", " ", "l", "o", "n", "g">>) /\ Contains(text_lower, <<"d", "e", "l", "i", "v", "e", "r">>) ->
              Arb("INFO_LEADTIME", 100, "keyword_correction")
      [] k = 2 /\ a.intent = "INFO_CONTEXT" /\ detected_product /= None ->
              Arb("PRODUCT_INQUIRY", 100, "entity_correction")
      [] k = 3 /\ a.intent \in {"NAV_QUOTE", "NAV_RFQ"}
               /\ (Contains(text_lower, <<"p", "r", "i", "c", "e">>) \/ Contains(text_lower, <<"p", "r", "i", "c", "i", "n", "g">>)) ->
              Arb("INFO_PRICE", 100, "keyword_correction")
      [] k = 4 /\ OfType(found, "rfq_id") /= {} ->
              Arb("INFO_RFQ_STATUS", 100, "entity_correction")
      [] k = 5 /\ Contains(text_lower, <<"r", "f", "q">>) /\ Contains(text_lower, <<"s", "t", "a", "t", "u", "s">>) ->
              Arb("INFO_RFQ_STATUS", 100, "keyword_correction")
      [] k = 6 /\ a.intent \in {"NAV_QUOTE", "NAV_RFQ"} /\ AnyIn(status_keywords, text_lower) ->
              Arb("INFO_TRACK", 100, "keyword_correction")
      [] k = 7 /\ Contains(text_lower, <<"p", "r", "i", "c", "e", " ", "o", "f">>) ->
              Arb("INFO_PRICE", 100, "keyword_correction")
      [] OTHER -> a

(* step 8: the k-th intent correction *)
Correction(k, a, text_lower, found, detected_product) ==
    CASE k = 1 /\ Contains(text_lower, <<"h", "o", "w", " ", "l", "o", "n", "g">>) /\ Contains(text_lower, <<"d", "e", "l", "i", "v", "e", "r">>) ->
              Arb("INFO_LEADTIME", 100, "keyword_correction")
      [] k = 2 /\ a.intent = "INFO_CONTEXT" /\ detected_product /= None ->
              Arb("PRODUCT_INQUIRY", 100, "entity_correction")
      [] k = 3 /\ a.intent \in {"NAV_QUOTE", "NAV_RFQ"}
               /\ (Contains(text_lower, <<"p", "r", "i", "c", "e">>) \/ Contains(text_lower, <<"p", "r", "i", "c", "i", "n", "g">>)) ->
              Arb("INFO_PRICE", 100, "keyword_correction")
      [] k = 4 /\ OfType(found, "rfq_id") /= {} ->
              Arb("INFO_RFQ_STATUS", 100, "entity_correction")
      [] k = 5 /\ Contains(text_lower, <<"r", "f", "q">>) /\ Contains(text_lower, <<"s", "t", "a", "t", "u", "s">>) ->
              Arb("INFO_RFQ_STATUS", 100, "keyword_correction")
      [] k = 6 /\ a.intent \in {"NAV_QUOTE", "NAV_RFQ"} /\ AnyIn(status_keywords, text_lower) ->
              Arb("INFO_TRACK", 100, "keyword_correction")
      [] k = 7 /\ Contains(text_lower, <<"p", "r", "i", "c", "e", " ", "o", "f">>) ->
              Arb("INFO_PRICE", 100, "keyword_correction")
      [] OTHER -> a

CorrectionCount == 7

RECURSIVE CorrectFrom(_, _, _, _, _)
CorrectFrom(k, a, text_lower, found, detected_product) ==
    IF k > CorrectionCount THEN a
    ELSE CorrectFrom(k + 1, Correction(k, a, text_lower, found, detected_product),
                     text_lower, found, detected_product)

(* step 8: the intent corrections in their order *)
Corrections(a, resolved_text, found, detected_product) ==
    CorrectFrom(1, a, Lower(resolved_text), found, detected_product)

(* ------------------------------------------------------------------ *)
(* lambda_handler: dialog execution and response                       *)
(* ------------------------------------------------------------------ *)

(* detected_product: the value of the first product entity *)
DetectedProduct(found) ==
    IF OfType(found, "product") = {} THEN None ELSE FirstOf(found, "product").value

(* the entities argument of process_turn: of each type the first value *)
FirstValues(found) ==
    [t \in EntityTypes |->
        IF OfType(found, t) = {} THEN None ELSE FirstOf(found, t).value]

(* the entity types extract_for_intent keeps for an intent *)
intent_entity_map(intent) ==
    CASE intent = "INFO_MOQ" -> {"product", "quantity"}
      [] intent = "INFO_PRICE" -> {"product", "quantity", "price"}
      [] intent = "INFO_BULK" -> {"product", "quantity", "price", "percentage"}
      [] intent = "INFO_TRACK" -> {"order_number", "rfq_id"}
      [] intent \in {"INFO_SHIPPING", "INFO_LEADTIME"} -> {"product", "quantity", "date"}
      [] intent = "INFO_SAMPLE" -> {"product", "quantity", "email"}
      [] intent = "INFO_RETURN" -> {"order_number", "product"}
      [] intent = "NAV_RFQ" ->
              {"product", "quantity", "company", "email", "price", "rfq_id"}
      [] intent = "HELP" -> {"product", "order_number"}
      [] intent = "INFO_RFQ_STATUS" -> {"rfq_id", "date"}
      [] OTHER -> CtxKeys

(* the best entity of each type the intent keeps, as the values the template
   branches hand to add_turn *)
KeptFor(found, intent) ==
    [k \in CtxKeys |->
        IF k \in intent_entity_map(intent) /\ OfType(found, k) /= {}
        THEN Str(BestOf(found, k).value)
        ELSE NoValue]

extract_for_intent(text, intent) == KeptFor(ExtractMemo[text], intent)

(* the filled slots of a dialog result, as the entities argument of add_turn *)
FilledIncoming(filled_slots) ==
    [k \in CtxKeys |-> IF k \in DOMAIN filled_slots THEN Str(filled_slots[k]) ELSE NoValue]

(* {k: [e.value for e in v]}: the RFQ status branch hands lists to add_turn *)
ListIncoming(found) ==
    [k \in CtxKeys |->
        IF OfType(found, k) = {} THEN NoValue ELSE Lst(FirstOf(found, k).value)]

(* current_entities of the fallback branch *)
FallbackIncoming(found, ents) ==
    IF found = {} THEN ents
    ELSE [k \in CtxKeys |->
             IF OfType(found, k) = {} THEN NoValue ELSE Str(FirstOf(found, k).value)]

farewell_keywords == << <<"b", "y", "e">>, <<"g", "o", "o", "d", "b", "y", "e">>, <<"s", "e", "e", " ", "y", "o", "u">>, <<"l", "a", "t", "e", "r">> >>

emotional_keywords ==
    << [intent |-> "EMOTION_THANKS",
        keywords |-> << <<"t", "h", "a", "n", "k", " ", "y", "o", "u">>, <<"t", "h", "a", "n", "k", "s">>, <<"a", "p", "p", "r", "e", "c", "i", "a", "t", "e", " ", "i", "t">>, <<"g", "r", "a", "t", "e", "f", "u", "l">> >>],
       [intent |-> "EMOTION_HAPPY",
        keywords |-> << <<"l", "o", "v", "e", " ", "i", "t">>, <<"a", "m", "a", "z", "i", "n", "g">>, <<"w", "o", "n", "d", "e", "r", "f", "u", "l">>, <<"f", "a", "n", "t", "a", "s", "t", "i", "c">>, <<"e", "x", "c", "e", "l", "l", "e", "n", "t">> >>],
       [intent |-> "EMOTION_FRUSTRATED",
        keywords |-> << <<"s", "o", " ", "f", "r", "u", "s", "t", "r", "a", "t", "e", "d">>, <<"f", "e", "d", " ", "u", "p">>, <<"s", "i", "c", "k", " ", "o", "f">>, <<"t", "i", "r", "e", "d", " ", "o", "f", " ", "t", "h", "i", "s">> >>],
       [intent |-> "EMOTION_ANGRY",
        keywords |-> << <<"f", "u", "r", "i", "o", "u", "s">>, <<"o", "u", "t", "r", "a", "g", "e", "d">>, <<"u", "n", "a", "c", "c", "e", "p", "t", "a", "b", "l", "e">>, <<"t", "h", "i", "s", " ", "i", "s", " ", "t", "e", "r", "r", "i", "b", "l", "e">> >>] >>

(* _check_emotional_expression *)
check_emotional_expression(text_lower) ==
    LET hits == {i \in 1..Len(emotional_keywords) :
                    AnyIn(emotional_keywords[i].keywords, text_lower)}
    IN IF AnyIn(farewell_keywords, text_lower) \/ hits = {} THEN "None"
       ELSE emotional_keywords[CHOOSE i \in hits : \A j \in hits : i <= j].intent

EmotionMemo == [t \in PipeTexts |-> check_emotional_expression(Lower(t))]

(* the answers to large_order_check that open the RFQ form, at step 9 and
   at step 12 *)
rfq_answers ==
    [active |-> {<<"y", "e", "s">>, <<"y">>, <<"s", "u", "r", "e">>, <<"o", "k">>, <<"y", "e", "a", "h">>, <<"y", "e", "s", " ", "p", "l", "e", "a", "s", "e">>, <<"y", "e", "s", ",", " ", "p", "l", "e", "a", "s", "e">>},
     started |-> {<<"y", "e", "s">>, <<"y">>, <<"s", "u", "r", "e">>, <<"o", "k">>, <<"y", "e", "a", "h">>}]

(* variant: every completed pricing flow opens the RFQ form *)
DialogAction_Always(result, answers) ==
    IF result.flow_name = "pricing_flow" /\ result.flow_status = "COMPLETED"
    THEN "rfq"
    ELSE result.action

(* the action of a response of the dialog manager: "rfq" for a completed
   pricing flow whose large_order_check is one of the answers *)
DialogAction(result, answers) ==
    IF /\ result.flow_name = "pricing_flow"
       /\ result.flow_status = "COMPLETED"
       /\ "large_order_check" \in DOMAIN result.filled_slots
       /\ Lower(result.filled_slots["large_order_check"]) \in answers
    THEN "rfq"
    ELSE result.action

(* dialog and action are the result of process_turn and the action of the
   response built from it, on the paths that answer with it *)
Outcome(c, path, intent, method, incoming, raised) ==
    [c |-> c, path |-> path, intent |-> intent, method |-> method,
     incoming |-> incoming, raised |-> raised, dialog |-> NoResult, action |-> "None"]

(* _start_flow up to the pre-fill that fails on a list value *)
StartFlowRaised(c, name, s) ==
    LET c1 == SetStatus(ResetIn(c, name), name, "IN_PROGRESS")
    IN [c1 EXCEPT !.flows[name].started_at = TRUE, !.active_flows[s] = name]

HasProductSlot(name) ==
    \E i \in 1..SlotCount(name) : SlotDef(name, i).entity_type = "product"

(* the outcome of a turn the dialog manager answered, at step 9 or step 12 *)
FlowOutcome(c, result, a, at) ==
    [c |-> c,
     path |-> IF at = 9 THEN "flow" ELSE "dialog",
     intent |-> IF at = 9 THEN result.flow_name ELSE a.intent,
     method |-> IF at = 9 THEN "None" ELSE a.method,
     incoming |-> FilledIncoming(result.filled_slots),
     raised |-> FALSE,
     dialog |-> result,
     action |-> DialogAction(result, IF at = 9 THEN rfq_answers.active
                                     ELSE rfq_answers.started)]

(* steps 9-12.  lambda_handler calls dialog_manager.process_turn at two points:
   at step 9 for the flow the session is in, and at step 12 for the flow of a
   high-confidence intent.  at tells where the turn is: 9 before the active
   flow's turn, 10 after it gave no response, 12 at the flow of the intent;
   kept is what extract_for_intent gives the template branches. *)
RECURSIVE Dispatch(_, _, _, _, _, _, _, _)
Dispatch(c, ents, s, resolved_text, found, a, at, kept) ==
    LET name == get_flow_for_intent(a.intent)
        inject == FirstValues(found)["product"] = None /\ ents["product"] /= NoValue
        given == IF inject /\ ~ents["product"].list
                 THEN [FirstValues(found) EXCEPT !["product"] = ents["product"].v]
                 ELSE FirstValues(found)
        Template(c1, path) == Outcome(c1, path, a.intent, a.method, kept, FALSE)
        Answered(r) ==
            IF r.result.response.kind /= "None"
            THEN FlowOutcome(r.c, r.result, a, at)
            ELSE IF at = 9 THEN Dispatch(r.c, ents, s, resolved_text, found, a, 10, kept)
            ELSE Template(r.c, "template")
    IN IF at = 9 /\ ~has_active_flow(c.active_flows, s)
       THEN Dispatch(c, ents, s, resolved_text, found, a, 10, kept)
       ELSE IF at \in {9, 12}
       THEN Answered(process_turn(c, IF at = 9 THEN "None" ELSE a.intent,
                                  IF at = 9 THEN FirstValues(found) ELSE given,
                                  resolved_text, s))
       ELSE IF EmotionMemo[resolved_text] /= "None"
       THEN Outcome(c, "emotional", EmotionMemo[resolved_text], "None", NoContext, FALSE)
       ELSE IF a.intent = "INFO_RFQ_STATUS"
       THEN Outcome(c, "rfq_status", "INFO_RFQ_STATUS", "None", ListIncoming(found), FALSE)
       ELSE IF a.intent = "CONTROL_CANCEL"
       THEN Outcome([c EXCEPT !.active_flows[s] = NoFlow], "cancel", "CONTROL_CANCEL",
                    a.method, NoContext, FALSE)
       ELSE IF a.intent = "OUT_OF_SCOPE"
       THEN Outcome(c, "out_of_scope", "OUT_OF_SCOPE", "None", NoContext, FALSE)
       ELSE IF a.intent /= "None" /\ a.confidence >= HIGH_CONFIDENCE
       THEN IF name = NoFlow THEN Template(c, "template")
            ELSE IF /\ inject /\ ents["product"].list /\ HasProductSlot(name)
                    /\ Route(c.active_flows, s, a.intent) = "start"
            THEN Outcome(StartFlowRaised(c, name, s), "raised", "None", "None", NoContext,
                         TRUE)
            ELSE Dispatch(c, ents, s, resolved_text, found, a, 12, kept)
       ELSE IF a.intent /= "None" /\ a.confidence >= MEDIUM_CONFIDENCE
       THEN Template(c, "medium")
       ELSE Outcome(c, "fallback", "None", "llm_fallback", FallbackIncoming(found, ents),
                    FALSE)

(* what a turn of the pipeline did *)
TurnRecord(s, text, idle, resolved_text, found, guard, hybrid, shift, chosen, final,
           stage, out) ==
    [session |-> s, text |-> text, idle |-> idle, resolved |-> resolved_text,
     product |-> DetectedProduct(found),
     types |-> {e.type : e \in found},
     guard |-> guard, hybrid |-> hybrid, shift |-> shift, chosen |-> chosen,
     final |-> final, stage |-> stage,
     path |-> out.path, intent |-> out.intent, method |-> out.method,
     incoming |-> out.incoming, raised |-> out.raised,
     dialog |-> out.dialog, action |-> out.action]

NoStage == [active |-> NoFlow, product |-> NoValue]

NoTurn ==
    TurnRecord("None", None, FALSE, None, {}, NoArb, NoArb, "same", NoArb, NoArb, NoStage,
               Outcome(<<>>, "None", "None", "None", NoContext, FALSE))

(* step 8 on the intent chosen by steps 6 and 7 *)
AfterShift(resolved_text, found, guard, hybrid, chosen) ==
    [guard |-> guard, hybrid |-> hybrid, chosen |-> chosen,
     final |-> Corrections(chosen, resolved_text, found, DetectedProduct(found))]

(* step 7 on what steps 6 detected: the guard's intent, else the matchers' *)
AfterHybrid(resolved_text, shifted, found, guard, hybrid) ==
    AfterShift(resolved_text, found, guard, hybrid,
               IF shifted
               THEN ShiftIntent(IF guard.intent = "None" THEN hybrid ELSE guard,
                                resolved_text)
               ELSE IF guard.intent = "None" THEN hybrid ELSE guard)

(* step 6d on what the guards said: the matchers run when no guard decided *)
AfterGuard(resolved_text, m, shifted, found, guard) ==
    AfterHybrid(resolved_text, shifted, found, guard,
                IF guard.intent = "None" THEN detect_intent_hybrid(resolved_text, m)
                ELSE NoArb)

(* steps 6a-6c on the entities extract_all found *)
AfterExtraction(original_text, resolved_text, m, shifted, found) ==
    AfterGuard(resolved_text, m, shifted, found,
               Guard(original_text, resolved_text, DetectedProduct(found)))

(* steps 6-8 on a text: the guards, the hybrid matchers when no guard decided,
   the intent of a topic shift when there is one, then the corrections *)
Arbitration(original_text, resolved_text, m, shifted) ==
    AfterExtraction(original_text, resolved_text, m, shifted, ExtractMemo[original_text])

ArbitrationMemo ==
    [u \in Utterances |-> [r \in ResolvedTexts[u] |-> [m \in MatcherOutcomes |->
        [shifted \in BOOLEAN |-> Arbitration(u, r, m, shifted)]]]]

(* step 7 on the state: a topic shift replaces the accumulated product and
   clears the active flow *)
ShiftState(c, ents, s, shift, detected_product) ==
    IF shift = "shift"
    THEN [c |-> EndFlow(c, s), ents |-> [ents EXCEPT !["product"] = Str(detected_product)]]
    ELSE [c |-> c, ents |-> ents]

(* the end of lambda_handler: _build_response stores the entities of the turn *)
Finish(s, original_text, idle, resolved, found, shift, arb, st, out) ==
    [c |-> out.c,
     ents |-> IF out.raised THEN st.ents ELSE add_turn(st.ents, out.incoming),
     turn |-> TurnRecord(s, original_text, idle, resolved.text, found, arb.guard, arb.hybrid,
                         shift, arb.chosen, arb.final,
                         [active |-> st.c.active_flows[s], product |-> st.ents["product"]],
                         out)]

(* a turn that ends with an exception: nothing more is stored *)
Failed(c, ents, s, original_text, idle, resolved, found, shift, arb) ==
    [c |-> c, ents |-> ents,
     turn |-> TurnRecord(s, original_text, idle, resolved.text, found, arb.guard, arb.hybrid,
                         shift, NoArb, NoArb,
                         [active |-> c.active_flows[s], product |-> ents["product"]],
                         Outcome(c, "raised", "None", "None", NoContext, TRUE))]

(* steps 7-12, given what the topic shift test said *)
Shifted(c, ents, s, original_text, idle, resolved, found, shift, arbs) ==
    IF shift = "raised"
    THEN Failed(c, ents, s, original_text, idle, resolved, found, shift, arbs[FALSE])
    ELSE Finish(s, original_text, idle, resolved, found, shift, arbs[shift = "shift"],
                ShiftState(c, ents, s, shift, DetectedProduct(found)),
                Dispatch(ShiftState(c, ents, s, shift, DetectedProduct(found)).c,
                         ShiftState(c, ents, s, shift, DetectedProduct(found)).ents,
                         s, resolved.text, found, arbs[shift = "shift"].final, 9,
                         extract_for_intent(resolved.text,
                                            arbs[shift = "shift"].final.intent)))

(* steps 6-12, given the entities extract_all found: arbs are the results of
   steps 6-8 with and without a topic shift *)
Extracted(c, ents, s, original_text, idle, resolved, m, found) ==
    Shifted(c, ents, s, original_text, idle, resolved, found,
            TopicShift(ents, DetectedProduct(found)),
            ArbitrationMemo[original_text][resolved.text][m])

(* lambda_handler from step 5 on: ents are the accumulated entities after the
   expiry check, resolved is what resolve_reference returned *)
lambda_handler(c, ents, s, original_text, idle, resolved, m) ==
    IF resolved.raised
    THEN Failed(c, ents, s, original_text, idle, resolved, {}, "same",
                [guard |-> NoArb, hybrid |-> NoArb])
    ELSE Extracted(c, ents, s, original_text, idle, resolved, m,
                   ExtractMemo[original_text])

(* ------------------------------------------------------------------ *)
(* The arbitration functions applied on their own                      *)
(* ------------------------------------------------------------------ *)

(* the state of the two matcher layers: the semantic matcher is ready, absent
   (the import failed), not ready, or raises inside match_intent; the fuzzy
   matcher returns or raises *)
SemanticStates == {"ready", "absent", "not_ready", "raises"}

FuzzyStates == {"returns", "raises"}

Layers(semantic, fuzzy) == [semantic |-> semantic, fuzzy |-> fuzzy]

(* layer 2 as _detect_intent_hybrid sees it: the guard on semantic_nlu and
   is_ready, and match_intent, which returns None when it fails *)
semantic_layer(layers, m) ==
    IF layers.semantic = "ready" THEN m.semantic ELSE NoMatch

(* the fuzzy loop runs unless an earlier return was taken *)
FuzzyReached(text, layers, m) ==
    /\ Strip(Lower(text)) \notin continuity_words
    /\ ~AnyIn(category_patterns, Strip(Lower(text)))
    /\ ~(semantic_layer(layers, m) /= NoMatch /\ semantic_layer(layers, m).confidence > 85)

Raised == Arb("None", 0, "raised")

(* _detect_intent_hybrid with its two layers in a given state: an error of
   process.extractOne is not caught *)
detect_intent_layers(text, layers, m) ==
    IF layers.fuzzy = "raises" /\ FuzzyReached(text, layers, m) THEN Raised
    ELSE detect_intent_hybrid(text, Matchers(semantic_layer(layers, m), m.fuzzy.intent,
                                             m.fuzzy.score))

(* an application of _detect_intent_hybrid (text, layers, m) or of the intent
   corrections (text, given): result is what the last application returned,
   previous what it was applied to, count how often the function was applied *)
Application(op, text, layers, m, a) ==
    [op |-> op, text |-> text, layers |-> layers, m |-> m, given |-> a, previous |-> a,
     result |-> a, count |-> 0]

NoApplication ==
    Application("None", None, Layers("ready", "returns"), Matchers(NoMatch, "None", 0), NoArb)

(* ------------------------------------------------------------------ *)
(* ConversationContext and ContextStore                                *)
(* ------------------------------------------------------------------ *)

max_turns == 10

expiry_minutes == 30

(* ConversationContext.__init__ at time 0: history holds the numbers of the
   stored turns, dialog_state the keys that are set, added counts the calls
   of add_turn, op names the last method called *)
ConversationContext ==
    [session_id |-> "None", user_profile |-> "None", history |-> <<>>,
     entities |-> NoContext, dialog_state |-> {}, last_activity |-> 0, added |-> 0,
     op |-> "init"]

(* the test of _check_expiry at time t *)
Expired(c, t) == t - c.last_activity > expiry_minutes

(* ConversationContext._check_expiry at time t: last_activity stays *)
CheckExpiry(c, t) ==
    IF Expired(c, t)
    THEN [c EXCEPT !.history = <<>>, !.entities = NoContext, !.dialog_state = {}]
    ELSE c

(* variant: a full history keeps growing *)
deque_append_Unbounded(history, item) ==
    history \o <<item>>

(* deque(maxlen = max_turns).append *)
deque_append(history, item) ==
    IF Len(history) >= max_turns THEN Tail(history) \o <<item>> ELSE history \o <<item>>

(* ConversationContext.add_turn at time t *)
ConvAddTurn(c, t, incoming) ==
    [CheckExpiry(c, t) EXCEPT
        !.entities = add_turn(CheckExpiry(c, t).entities, incoming),
        !.history = deque_append(CheckExpiry(c, t).history, c.added + 1),
        !.last_activity = t,
        !.added = c.added + 1,
        !.op = "add_turn"]

(* ContextStore._max_contexts: 1000 in the source, scaled down *)
max_contexts == 4

(* a stored context, known by its session and its last_activity *)
Entry(s, t) == [session_id |-> s, last_activity |-> t]

(* ContextStore.__init__: _contexts is a dict, kept in insertion order; op,
   session_id, held and returned record the last call, the number of contexts
   it found and what it returned *)
ContextStore ==
    [contexts |-> <<>>, op |-> "init", session_id |-> 0, held |-> 0,
     returned |-> Entry(0, 0)]

(* session_id in self._contexts *)
Known(ctxs, s) == \E i \in 1..Len(ctxs) : ctxs[i].session_id = s

Index(ctxs, s) == CHOOSE i \in 1..Len(ctxs) : ctxs[i].session_id = s

(* del self._contexts[...] of the i-th entry *)
Remove(ctxs, i) == SubSeq(ctxs, 1, i - 1) \o SubSeq(ctxs, i + 1, Len(ctxs))

(* the first entry of sorted(items, key = last_activity): the sort is stable *)
FirstOldest(ctxs) ==
    CHOOSE i \in 1..Len(ctxs) :
        \A j \in 1..Len(ctxs) :
            \/ ctxs[j].last_activity > ctxs[i].last_activity
            \/ ctxs[j].last_activity = ctxs[i].last_activity /\ j >= i

RECURSIVE RemoveOldest(_, _)
RemoveOldest(ctxs, k) ==
    IF k = 0 \/ ctxs = <<>> THEN ctxs
    ELSE RemoveOldest(Remove(ctxs, FirstOldest(ctxs)), k - 1)

(* len(sorted_sessions) // 10 or 1 *)
to_remove(n) == IF n \div 10 = 0 THEN 1 ELSE n \div 10

(* variant: the entries inserted first are removed, whatever their activity *)
cleanup_old_contexts_FirstInserted(ctxs) ==
    SubSeq(ctxs, to_remove(Len(ctxs)) + 1, Len(ctxs))

(* ContextStore._cleanup_old_contexts *)
cleanup_old_contexts(ctxs) ==
    RemoveOldest(ctxs, to_remove(Len(ctxs)))

(* ContextStore.get_or_create at time t: the dict afterwards *)
get_or_create(ctxs, s, t) ==
    IF Known(ctxs, s) THEN ctxs
    ELSE (IF Len(ctxs) >= max_contexts THEN cleanup_old_contexts(ctxs) ELSE ctxs)
            \o <<Entry(s, t)>>

(* ContextStore.save of a context last active at t *)
save(ctxs, s, t) ==
    IF Known(ctxs, s) THEN [ctxs EXCEPT ![Index(ctxs, s)] = Entry(s, t)]
    ELSE ctxs \o <<Entry(s, t)>>

(* ContextStore.delete *)
delete(ctxs, s) ==
    IF Known(ctxs, s) THEN Remove(ctxs, Index(ctxs, s)) ELSE ctxs

(* ------------------------------------------------------------------ *)
(* State                                                               *)
(* ------------------------------------------------------------------ *)

VARIABLES
    flows,          \* DialogManager.flows: flow name -> status, slot values, attempts
    active_flows,   \* DialogManager.active_flows: session -> flow name or NoFlow
    last,           \* the last call: what Continue read, the result, what it did
    failRun,        \* results of the failed fills that directly follow one another
    rfqStep,        \* how far the last turns follow RfqScript
    on_complete,    \* the flows whose DialogFlow.on_complete is set
    contexts,       \* ContextStore.contexts: the entities of each session
    turn,           \* the last turn of the pipeline: what each stage decided
    turns,          \* the number of calls of lambda_handler so far
    applied,        \* an arbitration function, its inputs and what it returned
    conv,           \* one ConversationContext
    store,          \* ContextStore._contexts: last_activity of each stored context
    now             \* the clock, in minutes

vars == <<flows, active_flows, last, failRun, rfqStep, on_complete, contexts, turn, turns,
         applied, conv, store, now>>

(* the variables of the arbitration functions, the context and the store *)
unitVars == <<applied, conv, store, now>>

NoFill == [slot |-> "None", ok |-> FALSE]

FailRunCap == 4

(* the turns after Start of the RFQ example, and the two that end the flow *)
RfqScript == <<T_500, T_acme, T_email, T_no, T_yes>>

Call(op, s, route, intent, text, r) ==
    [op |-> op, session |-> s, route |-> route, intent |-> intent,
     text |-> text, result |-> r.result,
     trace |-> r.c.trace, fill |-> r.c.fill, callbacks |-> r.c.callbacks,
     raised |-> r.c.raised]

Context == [flows |-> flows, active_flows |-> active_flows, trace |-> <<>>,
            fill |-> NoFill, callbacks |-> 0,
            on_complete |-> on_complete, raises |-> FALSE, raised |-> FALSE]

Init ==
    /\ flows = [n \in FlowNames |-> ResetFlow(n)]
    /\ active_flows = [s \in Sessions |-> NoFlow]
    /\ on_complete = {n \in FlowNames : FlowDef(n).on_complete}
    /\ last = Call("init", "None", "None", "None", None,
                   [c |-> Context, result |-> NoResult])
    /\ failRun = <<>>
    /\ rfqStep = 0
    /\ contexts = [s \in Sessions |-> NoContext]
    /\ turn = NoTurn
    /\ turns = 0
    /\ applied = NoApplication
    /\ conv = ConversationContext
    /\ store = ContextStore
    /\ now = 0

(* what a completion callback can do when it is called: return, or raise *)
CallbackOutcomes == IF on_complete = {} THEN {FALSE} ELSE BOOLEAN

FailTag(result) ==
    [flow_status |-> result.flow_status, kind |-> result.response.kind,
     slot |-> result.response.slot, error |-> result.error]

(* a call of dialog_manager.process_turn *)
ProcessTurn(s, intent, entities, user_text) ==
    LET route == Route(active_flows, s, intent)
        name == IF route = "continue" THEN active_flows[s]
                ELSE IF route = "start" THEN get_flow_for_intent(intent) ELSE NoFlow
    IN \E raises \in CallbackOutcomes :
       \E r \in {process_turn([Context EXCEPT !.raises = raises],
                               intent, entities, user_text, s)} :
       LET
        failed == r.c.fill.slot /= "None" /\ ~r.c.fill.ok
        follows == /\ last.op = "process_turn"
                   /\ last.session = s
                   /\ last.result.flow_name = name
                   /\ last.fill = r.c.fill
                   /\ Len(failRun) < FailRunCap
       IN
       /\ flows' = r.c.flows
       /\ active_flows' = r.c.active_flows
       /\ last' = Call("process_turn", s, route,
                       IF route = "continue" THEN intent ELSE "None",
                       IF route = "continue" THEN user_text ELSE None, r)
       /\ failRun' = IF ~failed THEN <<>>
                     ELSE IF follows THEN Append(failRun, FailTag(r.result))
                     ELSE <<FailTag(r.result)>>
       /\ rfqStep' =
            IF route = "start" /\ name = "rfq_flow" /\ entities = OneEntity("product", V_servo)
            THEN 1
            ELSE IF /\ route = "continue"
                    /\ rfqStep \in 1..Len(RfqScript)
                    /\ last.op = "process_turn"
                    /\ last.session = s
                    /\ entities = NoEntities
                    /\ user_text = RfqScript[rfqStep]
            THEN rfqStep + 1
            ELSE 0
       /\ UNCHANGED <<on_complete, contexts, turn, turns, unitVars>>

(* a call of dialog_manager.clear_flow *)
ClearFlow(s) ==
    LET r == [c |-> EndFlow(Context, s), result |-> NoResult]
    IN /\ flows' = r.c.flows
       /\ active_flows' = r.c.active_flows
       /\ last' = Call("clear_flow", s, "None", "None", None, r)
       /\ failRun' = <<>>
       /\ rfqStep' = 0
       /\ UNCHANGED <<on_complete, contexts, turn, turns, unitVars>>

Next ==
    \/ \E s \in Sessions : \E in \in InputsOf(s) :
           ProcessTurn(s, in.intent, in.entities, in.user_text)
    \/ \E s \in Sessions : ClearFlow(s)

Spec == Init /\ [][Next]_vars

(* the same calls on a manager whose RFQ and tracking flows were given a
   completion callback *)
CallbackInit ==
    /\ flows = [n \in FlowNames |-> ResetFlow(n)]
    /\ active_flows = [s \in Sessions |-> NoFlow]
    /\ on_complete = {"rfq_flow", "tracking_flow"}
    /\ last = Call("init", "None", "None", "None", None,
                   [c |-> Context, result |-> NoResult])
    /\ failRun = <<>>
    /\ rfqStep = 0
    /\ contexts = [s \in Sessions |-> NoContext]
    /\ turn = NoTurn
    /\ turns = 0
    /\ applied = NoApplication
    /\ conv = ConversationContext
    /\ store = ContextStore
    /\ now = 0

CallbackSpec == CallbackInit /\ [][Next]_vars

(* ------------------------------------------------------------------ *)
(* The pipeline as a state machine: turns of one session               *)
(* ------------------------------------------------------------------ *)

PipeSessions == {"s1"}

MaxTurns == 2

(* the matcher outcomes the turns draw from *)
PipeMatchers == {m \in MatcherOutcomes : m.fuzzy.intent \in {"None", "NAV_QUOTE", "INFO_SHIPPING", "NAV_RFQ"} /\ m.fuzzy.score /= 80}

(* an expiry of an empty context changes nothing *)
IdleChoices(s) == IF contexts[s] = NoContext THEN {FALSE} ELSE BOOLEAN

(* step 3: resolve_reference, which SYSTEM_ and TRACER: texts skip *)
Resolve(ents, text) ==
    IF StartsWith(text, <<"S", "Y", "S", "T", "E", "M", "_">>) \/ StartsWith(text, <<"T", "R", "A", "C", "E", "R", ":">>)
    THEN [text |-> text, raised |-> FALSE]
    ELSE resolve_reference(ents, text)

(* a call of lambda_handler *)
Turn(s, text, idle, m) ==
    /\ turns < MaxTurns
    /\ \E c \in {Context} : \E ents \in {check_expiry(contexts[s], idle)} :
       \E resolved \in {Resolve(ents, text)} :
       /\ Len(resolved.text) <= MaxTextLen
       /\ \E r \in {lambda_handler(c, ents, s, text, idle, resolved, m)} :
             /\ flows' = r.c.flows
             /\ active_flows' = r.c.active_flows
             /\ contexts' = [contexts EXCEPT ![s] = r.ents]
             /\ turn' = r.turn
       /\ turns' = turns + 1
       /\ UNCHANGED <<last, failRun, rfqStep, on_complete, unitVars>>

PipeNext ==
    \E s \in PipeSessions : \E idle \in IdleChoices(s) : \E text \in Utterances :
        \E m \in PipeMatchers : Turn(s, text, idle, m)

PipeSpec == Init /\ [][PipeNext]_vars

(* ------------------------------------------------------------------ *)
(* ConversationContext alone: calls of add_turn                        *)
(* ------------------------------------------------------------------ *)

V_Bearing == <<"B", "e", "a", "r", "i", "n", "g">>

Incoming(keys, product) ==
    [k \in CtxKeys |->
        IF k = "product" /\ product /= None THEN Str(product)
        ELSE IF k \in keys THEN Str(T_500)
        ELSE NoValue]

(* the entities arguments of the add_turn calls *)
IncomingMaps ==
    {Incoming(keys, product) :
        keys \in {{}, {"quantity"}, {"price", "specs"}, {"date", "order_number"},
                  {"email"}, {"company", "timeline"}, {"rfq_id", "large_order_check"}},
        product \in {None, V_bearing, V_Bearing, V_actuator}}

(* a call of conv_context.add_turn *)
AddTurn(s, incoming, idle) ==
    /\ contexts' = [contexts EXCEPT ![s] = add_turn(check_expiry(contexts[s], idle), incoming)]
    /\ turn' = [NoTurn EXCEPT !.session = s, !.idle = idle, !.incoming = incoming,
                              !.stage.product = check_expiry(contexts[s], idle)["product"],
                              !.path = "add_turn"]
    /\ UNCHANGED <<flows, active_flows, last, failRun, rfqStep, on_complete, turns, unitVars>>

ContextNext ==
    \E s \in PipeSessions : \E idle \in IdleChoices(s) : \E incoming \in IncomingMaps :
        AddTurn(s, incoming, idle)

ContextSpec == Init /\ [][ContextNext]_vars

(* ------------------------------------------------------------------ *)
(* The hybrid matcher and the intent corrections as functions          *)
(* ------------------------------------------------------------------ *)

U_types == <<"w", "h", "a", "t", " ", "t", "y", "p", "e", "s", " ", "o", "f", " ", "b", "e", "a", "r", "i", "n", "g", "s">>

U_howlong == <<"h", "o", "w", " ", "l", "o", "n", "g", " ", "t", "o", " ", "d", "e", "l", "i", "v", "e", "r", " ", "b", "e", "a", "r", "i", "n", "g", "s">>

U_howlong_rfq == <<"h", "o", "w", " ", "l", "o", "n", "g", " ", "t", "o", " ", "d", "e", "l", "i", "v", "e", "r", " ", "R", "E", "Q", "-", "1", "2", "3", "4", "5">>

U_rfq_status == <<"r", "f", "q", " ", "s", "t", "a", "t", "u", "s", " ", "p", "l", "e", "a", "s", "e">>

U_pricing_status == <<"p", "r", "i", "c", "i", "n", "g", " ", "s", "t", "a", "t", "u", "s", " ", "o", "f", " ", "b", "e", "a", "r", "i", "n", "g", "s">>

U_howlong_price == <<"h", "o", "w", " ", "l", "o", "n", "g", " ", "t", "o", " ", "d", "e", "l", "i", "v", "e", "r", ",", " ", "p", "r", "i", "c", "e", " ", "o", "f", " ", "b", "e", "a", "r", "i", "n", "g", "s">>

U_about_bearings == <<"w", "h", "a", "t", " ", "a", "b", "o", "u", "t", " ", "b", "e", "a", "r", "i", "n", "g", "s">>

U_status_bearings == <<"s", "t", "a", "t", "u", "s", " ", "o", "f", " ", "b", "e", "a", "r", "i", "n", "g", "s">>

SemanticScores == {45, 55, 59, 60, 85, 86, 100}

FuzzyScores == {20, 49, 50, 55, 59, 60, 90, 100}

(* what the semantic matcher (a match at or above its threshold, or none) and
   the fuzzy matcher (the best intent and its score) can return *)
HybridMatchers ==
    {Matchers(s, f.intent, f.score) :
        s \in {NoMatch} \cup {[intent |-> "INFO_LEADTIME", confidence |-> c] : c \in SemanticScores},
        f \in {[intent |-> "None", score |-> 0]}
              \cup {[intent |-> "INFO_SHIPPING", score |-> c] : c \in FuzzyScores}}

HybridTexts == {T_yes, U_types, U_howlong}

(* the texts and arbitration results the corrections are applied to *)
CorrectionTexts ==
    {U_howlong, U_howlong_rfq, U_howlong_price, U_rfq_status, U_pricing_status, U_about_bearings,
     U_status_bearings, U_price,
     U_status, U_joke, T_500}

CorrectionIntents ==
    {"None", "INFO_SHIPPING", "INFO_CONTEXT", "NAV_QUOTE", "NAV_RFQ", "INFO_PRICE",
     "INFO_TRACK", "INFO_RFQ_STATUS", "INFO_LEADTIME", "PRODUCT_INQUIRY", "CONTROL_CANCEL"}

CorrectionInputs ==
    {NoArb} \cup {Arb(i, c, method) : i \in CorrectionIntents \ {"None"}, c \in {58, 100},
                                      method \in {"fuzzy", "keyword_correction"}}

CorrectionMemo == [t \in CorrectionTexts |-> extract_all(t)]

ArbitrationInit ==
    /\ flows = [n \in FlowNames |-> ResetFlow(n)]
    /\ active_flows = [s \in Sessions |-> NoFlow]
    /\ on_complete = {n \in FlowNames : FlowDef(n).on_complete}
    /\ last = Call("init", "None", "None", "None", None,
                   [c |-> Context, result |-> NoResult])
    /\ rfqStep = 0
    /\ failRun = <<>>
    /\ contexts = [s \in Sessions |-> NoContext]
    /\ turn = NoTurn
    /\ turns = 0
    /\ applied \in {Application("detect_intent_hybrid", t, Layers(s, f), m, NoArb) :
                        t \in HybridTexts, s \in SemanticStates, f \in FuzzyStates,
                        m \in HybridMatchers}
                   \cup {Application("corrections", t, NoApplication.layers,
                                     NoApplication.m, a) :
                        t \in CorrectionTexts, a \in CorrectionInputs}
    /\ conv = ConversationContext
    /\ store = ContextStore
    /\ now = 0

(* a call of _detect_intent_hybrid *)
DetectIntentHybrid ==
    /\ applied.op = "detect_intent_hybrid"
    /\ applied.count = 0
    /\ applied' = [applied EXCEPT !.result = detect_intent_layers(applied.text, applied.layers,
                                                                 applied.m),
                                  !.count = 1]
    /\ UNCHANGED <<flows, active_flows, last, failRun, rfqStep, on_complete, contexts, turn,
                   turns, conv, store, now>>

MaxApplications == 2

(* step 8 of lambda_handler applied to the last arbitration result *)
CorrectIntent ==
    /\ applied.op = "corrections"
    /\ applied.count < MaxApplications
    /\ applied' = [applied EXCEPT
           !.previous = applied.result,
           !.result = Corrections(applied.result, applied.text, CorrectionMemo[applied.text],
                                  DetectedProduct(CorrectionMemo[applied.text])),
           !.count = applied.count + 1]
    /\ UNCHANGED <<flows, active_flows, last, failRun, rfqStep, on_complete, contexts, turn,
                   turns, conv, store, now>>

ArbitrationNext == DetectIntentHybrid \/ CorrectIntent

ArbitrationSpec == ArbitrationInit /\ [][ArbitrationNext]_vars

(* ------------------------------------------------------------------ *)
(* One ConversationContext: its methods and the passing of time        *)
(* ------------------------------------------------------------------ *)

MaxAdded == 12

MaxNow == 92

Waits == {30, 31}

(* the methods that only call _check_expiry and read *)
Readers ==
    {"get_context_window", "get_context_string", "get_last_intent", "get_last_entities",
     "get_entity", "resolve_reference"}

DialogStateKeys == {"step"}

(* a context made by get_or_create for session s1 whose profile is set *)
ConversationInit ==
    /\ flows = [n \in FlowNames |-> ResetFlow(n)]
    /\ active_flows = [s \in Sessions |-> NoFlow]
    /\ on_complete = {n \in FlowNames : FlowDef(n).on_complete}
    /\ last = Call("init", "None", "None", "None", None,
                   [c |-> Context, result |-> NoResult])
    /\ rfqStep = 0
    /\ failRun = <<>>
    /\ contexts = [s \in Sessions |-> NoContext]
    /\ turn = NoTurn
    /\ turns = 0
    /\ applied = NoApplication
    /\ conv = [ConversationContext EXCEPT !.session_id = "s1", !.user_profile = "buyer"]
    /\ store = ContextStore
    /\ now = 0

ConvUnchanged ==
    UNCHANGED <<flows, active_flows, last, failRun, rfqStep, on_complete, contexts, turn,
                turns, applied, store>>

(* time passes *)
Wait(d) ==
    /\ now + d <= MaxNow
    /\ now' = now + d
    /\ conv' = [conv EXCEPT !.op = "wait"]
    /\ ConvUnchanged

(* add_turn *)
AddConversationTurn(incoming) ==
    /\ conv.added < MaxAdded
    /\ conv' = ConvAddTurn(conv, now, incoming)
    /\ UNCHANGED now
    /\ ConvUnchanged

(* get_context_window, get_context_string, get_last_intent, get_last_entities,
   get_entity, resolve_reference *)
Read(op) ==
    /\ conv' = [CheckExpiry(conv, now) EXCEPT !.op = op]
    /\ UNCHANGED now
    /\ ConvUnchanged

(* set_dialog_state *)
SetDialogState(key) ==
    /\ conv' = [conv EXCEPT !.dialog_state = conv.dialog_state \cup {key},
                            !.op = "set_dialog_state"]
    /\ UNCHANGED now
    /\ ConvUnchanged

(* get_dialog_state *)
GetDialogState ==
    /\ conv' = [conv EXCEPT !.op = "get_dialog_state"]
    /\ UNCHANGED now
    /\ ConvUnchanged

(* clear_dialog_state *)
ClearDialogState ==
    /\ conv' = [conv EXCEPT !.dialog_state = {}, !.op = "clear_dialog_state"]
    /\ UNCHANGED now
    /\ ConvUnchanged

ConversationNext ==
    \/ \E d \in Waits : Wait(d)
    \/ \E incoming \in {Incoming({"quantity"}, V_bearing), Incoming({}, None)} :
          AddConversationTurn(incoming)
    \/ \E op \in Readers : Read(op)
    \/ \E key \in DialogStateKeys : SetDialogState(key)
    \/ GetDialogState
    \/ ClearDialogState

ConversationSpec == ConversationInit /\ [][ConversationNext]_vars

(* ------------------------------------------------------------------ *)
(* The ContextStore: its methods, activity on a stored context, time   *)
(* ------------------------------------------------------------------ *)

MaxStored == 20

MaxClock == 1

MaxSession == 21

StoreInit ==
    /\ flows = [n \in FlowNames |-> ResetFlow(n)]
    /\ active_flows = [s \in Sessions |-> NoFlow]
    /\ on_complete = {n \in FlowNames : FlowDef(n).on_complete}
    /\ last = Call("init", "None", "None", "None", None,
                   [c |-> Context, result |-> NoResult])
    /\ rfqStep = 0
    /\ failRun = <<>>
    /\ contexts = [s \in Sessions |-> NoContext]
    /\ turn = NoTurn
    /\ turns = 0
    /\ applied = NoApplication
    /\ conv = ConversationContext
    /\ store = ContextStore
    /\ now = 0

StoreUnchanged ==
    UNCHANGED <<flows, active_flows, last, failRun, rfqStep, on_complete, contexts, turn,
                turns, applied, conv>>

(* a session the store does not hold: session ids grow with the order of arrival *)
NewSession ==
    IF store.contexts = <<>> THEN 1
    ELSE store.contexts[Len(store.contexts)].session_id + 1

(* the sessions the calls are made for: a new one, the one stored first *)
StoreTargets ==
    {s \in {NewSession} : s <= MaxSession}
        \cup {store.contexts[i].session_id : i \in {1} \cap DOMAIN store.contexts}

(* the sessions delete is called for: a new one, the one stored last *)
DeleteTargets ==
    {NewSession} \cup {store.contexts[i].session_id :
                          i \in {Len(store.contexts)} \cap DOMAIN store.contexts}

(* what a call that returns nothing leaves in the record of the last call *)
Called(ctxs, op, s) ==
    [contexts |-> ctxs, op |-> op, session_id |-> s, held |-> Len(store.contexts),
     returned |-> ContextStore.returned]

Tick ==
    /\ now < MaxClock
    /\ now' = now + 1
    /\ store' = Called(store.contexts, "tick", 0)
    /\ StoreUnchanged

(* get_or_create(s) *)
GetOrCreate(s) ==
    /\ store' = [contexts |-> get_or_create(store.contexts, s, now),
                 op |-> "get_or_create", session_id |-> s, held |-> Len(store.contexts),
                 returned |-> LET after == get_or_create(store.contexts, s, now)
                              IN after[Index(after, s)]]
    /\ UNCHANGED now
    /\ StoreUnchanged

(* save(s, context) of a context active now *)
Save(s) ==
    /\ Len(store.contexts) < MaxStored \/ Known(store.contexts, s)
    /\ store' = Called(save(store.contexts, s, now), "save", s)
    /\ UNCHANGED now
    /\ StoreUnchanged

(* delete(s) *)
Delete(s) ==
    /\ store' = Called(delete(store.contexts, s), "delete", s)
    /\ UNCHANGED now
    /\ StoreUnchanged

StoreNext ==
    \/ Tick
    \/ \E s \in StoreTargets : GetOrCreate(s)
    \/ \E s \in StoreTargets : Save(s)
    \/ \E s \in DeleteTargets : Delete(s)

StoreSpec == StoreInit /\ [][StoreNext]_vars

(* ------------------------------------------------------------------ *)
(* resolve_reference applied to a text and accumulated entities        *)
(* ------------------------------------------------------------------ *)

(* the part of the state the calls of single functions leave alone *)
IdleInit ==
    /\ flows = [n \in FlowNames |-> ResetFlow(n)]
    /\ active_flows = [s \in Sessions |-> NoFlow]
    /\ on_complete = {n \in FlowNames : FlowDef(n).on_complete}
    /\ last = Call("init", "None", "None", "None", None,
                   [c |-> Context, result |-> NoResult])
    /\ rfqStep = 0
    /\ failRun = <<>>
    /\ contexts = [s \in Sessions |-> NoContext]
    /\ turn = NoTurn
    /\ turns = 0
    /\ conv = ConversationContext
    /\ store = ContextStore
    /\ now = 0

IdleUnchanged ==
    UNCHANGED <<flows, active_flows, last, failRun, rfqStep, on_complete, contexts, turn,
                turns, conv, store, now>>

R_moq == <<"W", "h", "a", "t", "'", "s", " ", "t", "h", "e", " ", "M", "O", "Q", " ", "f", "o", "r", " ", "i", "t", "?">>
R_submit_it == <<"s", "u", "b", "m", "i", "t", " ", "i", "t">>
R_submit == <<"s", "u", "b", "m", "i", "t">>
R_twice == <<"I", "s", " ", "I", "T", " ", "i", "n", " ", "s", "t", "o", "c", "k", ",", " ", "i", "s", " ", "i", "t", " ", "c", "h", "e", "a", "p">>
R_present == <<"p", "r", "i", "c", "e", " ", "o", "f", " ", "s", "e", "r", "v", "o", " ", "m", "o", "t", "o", "r", " ", "f", "o", "r", " ", "i", "t">>
R_order_it == <<"t", "r", "a", "c", "k", " ", "m", "y", " ", "o", "r", "d", "e", "r", " ", "a", "n", "d", " ", "i", "t">>
R_that_product == <<"i", "s", " ", "t", "h", "a", "t", " ", "t", "h", "e", " ", "p", "r", "o", "d", "u", "c", "t">>
R_them_order == <<"s", "h", "i", "p", " ", "t", "h", "e", "m", " ", "w", "i", "t", "h", " ", "t", "h", "e", " ", "o", "r", "d", "e", "r">>
R_hello == <<"h", "e", "l", "l", "o">>
R_this_that == <<"T", "h", "i", "s", " ", "o", "r", " ", "t", "h", "a", "t", " ", "i", "t", "e", "m">>
R_upper == <<"I", "s", " ", "I", "T", " ", "i", "n", " ", "s", "t", "o", "c", "k">>

ReferenceTexts ==
    {R_moq, R_submit_it, R_submit, R_twice, R_present, R_order_it, R_that_product,
     R_them_order, R_hello, R_this_that, R_upper}

V_servo_motor == <<"s", "e", "r", "v", "o", " ", "m", "o", "t", "o", "r">>
V_gasket == <<"g", "a", "s", "k", "e", "t">>
V_po7 == <<"P", "O", "-", "7">>

(* accumulated entities of the types the referring phrases name *)
Accumulated(product, item, order_number) ==
    [k \in CtxKeys \cup {"item"} |->
        IF k = "product" THEN Str(product)
        ELSE IF k = "item" THEN Str(item)
        ELSE IF k = "order_number" THEN Str(order_number)
        ELSE NoValue]

ReferenceEntities ==
    {Accumulated(p, i, o) : p \in {None, V_servo_motor, V_Bearing}, i \in {None, V_gasket},
                            o \in {None, V_po7}}

Resolution(text, ents) ==
    [op |-> "resolve_reference", text |-> text, ents |-> ents, result |-> text, count |-> 0]

ReferenceInit ==
    /\ IdleInit
    /\ applied \in {Resolution(t, e) : t \in ReferenceTexts, e \in ReferenceEntities}

(* a call of resolve_reference on a context that has not expired *)
ResolveReference ==
    /\ applied.op = "resolve_reference"
    /\ applied.count = 0
    /\ applied' = [applied EXCEPT !.result = resolve_reference(applied.ents, applied.text).text,
                                  !.count = 1]
    /\ IdleUnchanged

ReferenceSpec == ReferenceInit /\ [][ResolveReference]_vars

(* ------------------------------------------------------------------ *)
(* One session answering the prompts of the RFQ flow                   *)
(* ------------------------------------------------------------------ *)

(* the turns of the session: the flow started with its product given, then
   answers without entities *)
SlotInputs ==
    {TurnInput("NAV_RFQ", OneEntity("product", V_servo), T_acme)}
    \cup {TurnInput("None", NoEntities, t) :
             t \in {T_500, T_acme, T_email, T_yes, T_no} \cup SlotAnswers}

SlotNext ==
    \E s \in {"s1"} : \E in \in SlotInputs :
        ProcessTurn(s, in.intent, in.entities, in.user_text)

SlotSpec == Init /\ [][SlotNext]_vars

(* ------------------------------------------------------------------ *)
(* The entity extractor applied to texts, to lists of candidates and   *)
(* to captured quantities                                              *)
(* ------------------------------------------------------------------ *)

E_20k == <<"2", "0", "k", " ", "p", "i", "e", "c", "e", "s">>
E_500 == <<"5", "0", "0", " ", "u", "n", "i", "t", "s">>
E_201k == <<"2", ".", "0", "1", "k", " ", "p", "i", "e", "c", "e", "s">>
E_15k == <<"1", ".", "5", "k", " ", "u", "n", "i", "t", "s">>
E_need == <<"n", "e", "e", "d", " ", "2", ".", "0", "1", "k">>
E_1000 == <<"1", ",", "0", "0", "0", " ", "p", "i", "e", "c", "e", "s">>
E_eight == <<"1", "2", "3", "4", "5", "6", "7", "8", " ", "u", "n", "i", "t", "s">>
E_req == <<"R", "E", "Q", "-", "1", "2", "3", "4", "5">>
E_req_units == <<"R", "E", "Q", " ", "1", "2", "3", "4", "5", " ", "u", "n", "i", "t", "s">>
E_rfq_pcs == <<"r", "f", "q", "-", "4", "0", "0", "0", " ", "p", "c", "s">>
E_buy == <<"b", "u", "y", " ", "1", "0">>
E_order == <<"o", "r", "d", "e", "r", " ", "5", "K", " ", "b", "e", "a", "r", "i", "n", "g", "s">>
E_want == <<"w", "a", "n", "t", " ", "4", ".", "3", "5", "k", " ", "s", "e", "r", "v", "o", " ", "m", "o", "t", "o", "r", "s">>
E_two == <<"n", "e", "e", "d", " ", "1", "0", "0", " ", "a", "n", "d", " ", "n", "e", "e", "d", " ", "2", "0", "0", "0", " ", "u", "n", "i", "t", "s">>
E_rfq_need == <<"R", "F", "Q", "1", "2", "3", "4", "5", " ", "n", "e", "e", "d", " ", "1", "2", "3", "4", "5">>
E_items == <<"7", " ", "i", "t", "e", "m", "s", " ", "8", " ", "i", "t", "e", "m", "s">>

ExtractTexts ==
    {E_20k, E_500, E_201k, E_15k, E_need, E_1000, E_eight, E_req, E_req_units,
     E_rfq_pcs, E_buy, E_order, E_want, E_two, E_rfq_need, E_items, U_need, U_status}

(* values the quantity patterns capture *)
CapturedQuantities ==
    {<<"1", ".", "5", "k">>, <<"2", "0", "k">>, <<"5", "0", "0">>, <<"2", ".", "0", "1", "k">>, <<"1", ".", "0", "0", "1", "k">>, <<"4", ".", "3", "5", "k">>, <<"1", ",", "0", "0", "0">>,
     <<"1", ",", "5", "K">>, <<"2", ".", "5">>, <<"0", ".", "5", "k">>, <<"1", ".", "5", ".", "3", "k">>, <<"9", "9", "9", "9", "9", "9", "9", "k">>, <<"0">>}

MaxEnd == 3
MaxCandidates == 3

Confidences == {70, 95}

(* an entity as _resolve_overlaps sees it *)
Candidate(start, end, confidence) ==
    [type |-> "product", value |-> V_bearing, start |-> start, end |-> end,
     confidence |-> confidence]

(* the candidates with spans inside 0..max_end *)
Candidates(max_end) ==
    {c \in {Candidate(s, e, k) : s \in 0..(max_end - 1), e \in 1..max_end,
                                  k \in Confidences} : c.start < c.end}

(* the lists of one to max_len of them *)
CandidateLists(max_len, max_end) ==
    UNION {[1..n -> Candidates(max_end)] : n \in 1..max_len}

Extraction(op, text, entities) ==
    [op |-> op, text |-> text, entities |-> entities, result |-> <<>>, count |-> 0]

ExtractInit ==
    /\ IdleInit
    /\ applied \in {Extraction("extract_all", t, <<>>) : t \in ExtractTexts}
                   \cup {Extraction("_normalize_value", v, <<>>) : v \in CapturedQuantities}
                   \cup {Extraction("_resolve_overlaps", <<>>, l) :
                            l \in CandidateLists(MaxCandidates, MaxEnd)}

ExtractAll ==
    /\ applied.op = "extract_all"
    /\ applied.count = 0
    /\ applied' = [applied EXCEPT !.result = extract_all(applied.text), !.count = 1]
    /\ IdleUnchanged

NormalizeValue ==
    /\ applied.op = "_normalize_value"
    /\ applied.count = 0
    /\ applied' = [applied EXCEPT !.result = NormalizeQuantity(applied.text), !.count = 1]
    /\ IdleUnchanged

ResolveOverlapsOf ==
    /\ applied.op = "_resolve_overlaps"
    /\ applied.count = 0
    /\ applied' = [applied EXCEPT !.result = resolve_overlaps(applied.entities),
                                  !.count = 1]
    /\ IdleUnchanged

ExtractNext == ExtractAll \/ NormalizeValue \/ ResolveOverlapsOf

ExtractSpec == ExtractInit /\ [][ExtractNext]_vars


(* ------------------------------------------------------------------ *)
(* Vocabulary of the properties                                        *)
(* ------------------------------------------------------------------ *)

SlotNames(name) == {SlotDef(name, i).name : i \in 1..SlotCount(name)}

RequiredNames(name) ==
    {SlotDef(name, i).name : i \in {k \in 1..SlotCount(name) : SlotDef(name, k).required}}

Unfilled(name, f) == {i \in 1..SlotCount(name) : f.value[i] = <<"None">>}

FilledNames(name, f) ==
    {SlotDef(name, i).name : i \in (1..SlotCount(name)) \ Unfilled(name, f)}

IsReset(name, f) ==
    /\ f.status = "NOT_STARTED"
    /\ f.started_at = FALSE
    /\ \A i \in 1..SlotCount(name) : f.value[i] = <<"None">> /\ f.attempts[i] = 0

Ended(result) == result.flow_status \in {"COMPLETED", "CANCELLED"}

IsErrorTag(tag) ==
    /\ tag.flow_status = "IN_PROGRESS"
    /\ tag.kind = "error_message"
    /\ tag.slot = last.fill.slot
    /\ tag.error = TRUE

(* the step is a turn of session s *)
TurnOf(s) == last'.op = "process_turn" /\ last'.session = s

(* the step is a Continue turn of session s on the flow it had active *)
ContinueOf(s) == TurnOf(s) /\ active_flows[s] /= NoFlow /\ last'.route = "continue"

C2_LastRequiredSlotConfirms ==
    (/\ last.op = "process_turn"
     /\ last.fill.ok
     /\ last.fill.slot \in RequiredNames(last.result.flow_name)
     /\ FlowDef(last.result.flow_name).confirmation_prompt
     /\ RequiredNames(last.result.flow_name) \subseteq DOMAIN last.result.filled_slots)
    => /\ last.result.flow_status = "AWAITING_CONFIRMATION"
       /\ last.result.response.kind = "confirmation_prompt"

(* C2 amended: the turn that leaves no slot of the flow unfilled, required or
   optional, sets AWAITING_CONFIRMATION and returns the confirmation template
   rendered with the filled slots; a successful fill that leaves a slot
   unfilled returns the prompt of the next unfilled slot with IN_PROGRESS. *)
C2_LastSlotConfirms ==
    [][\A s \in Sessions :
          LET name == last'.result.flow_name
              before == IF last'.route = "start" THEN {}
                        ELSE FilledNames(name, flows[name])
              reported == DOMAIN last'.result.filled_slots
          IN (/\ TurnOf(s)
              /\ last'.route \in {"start", "continue"}
              /\ FlowDef(name).confirmation_prompt
              /\ last'.result.flow_status /= "CANCELLED"
              /\ last'.route = "continue" => reported /= before)
             => IF reported = SlotNames(name)
                THEN /\ flows'[name].status = "AWAITING_CONFIRMATION"
                     /\ last'.result.flow_status = "AWAITING_CONFIRMATION"
                     /\ last'.result.response.kind = "confirmation_prompt"
                     /\ last'.result.response.filled = last'.result.filled_slots
                     /\ active_flows'[s] = name
                ELSE /\ last'.result.flow_status = "IN_PROGRESS"
                     /\ last'.result.response.kind = "prompt"
                     /\ last'.result.current_slot \in SlotNames(name) \ reported
                     /\ last'.result.current_slot \in RequiredNames(name)
                        \/ RequiredNames(name) \subseteq reported
      ]_vars

C2_Witness ==
    /\ last.route = "continue"
    /\ last.result.flow_name = "rfq_flow"
    /\ last.result.flow_status = "AWAITING_CONFIRMATION"
    /\ last.result.response.kind = "confirmation_prompt"
    /\ last.result.filled_slots["timeline"] = SkipSentinel

(* ------------------------------------------------------------------ *)
(* C3 as stated: Start with the product entity "servo motor", then the *)
(* texts "500", "Acme Industries" and "orders@acme.com", ends with     *)
(* status COMPLETED and the four required slots in filledSlots.        *)
(* ------------------------------------------------------------------ *)
RfqRequired(n) ==
    [k \in RequiredNames("rfq_flow") |->
        CASE k = "product" -> V_servo
          [] k = "quantity" -> IF n >= 2 THEN T_500 ELSE <<"None">>
          [] k = "company" -> IF n >= 3 THEN T_acme ELSE <<"None">>
          [] k = "email" -> IF n >= 4 THEN T_email ELSE <<"None">>]

(* the required slots the RFQ example has filled after n of its turns *)
RfqFilled(n) ==
    LET given == {k \in RequiredNames("rfq_flow") : RfqRequired(n)[k] /= <<"None">>}
    IN [k \in given |-> RfqRequired(n)[k]]

C3_ExampleCompletesAfterEmail ==
    rfqStep = 4 =>
        /\ last.result.flow_status = "COMPLETED"
        /\ RequiredNames("rfq_flow") \subseteq DOMAIN last.result.filled_slots

(* C3 amended: after the e-mail turn the four required slots are filled, the
   result is IN_PROGRESS and prompts for the optional timeline; the flow
   reaches COMPLETED, with the four required slots in filledSlots, once the
   timeline has been skipped and the confirmation answered "yes". *)
C3_ExampleCompletesAfterConfirmation ==
    /\ rfqStep \in 1..4 =>
          /\ last.result.flow_status = "IN_PROGRESS"
          /\ last.result.response.kind = "prompt"
          /\ last.result.flow_name = "rfq_flow"
          /\ last.result.filled_slots = RfqFilled(rfqStep)
          /\ last.result.current_slot =
                SlotDef("rfq_flow", rfqStep + 1).name
          /\ active_flows[last.session] = "rfq_flow"
    /\ rfqStep = 4 => last.result.current_slot = "timeline"
    /\ rfqStep = 5 =>
          /\ last.result.flow_status = "AWAITING_CONFIRMATION"
          /\ last.result.response.kind = "confirmation_prompt"
          /\ last.result.filled_slots =
                 [k \in SlotNames("rfq_flow") |->
                     IF k = "timeline" THEN SkipSentinel ELSE RfqRequired(4)[k]]
    /\ rfqStep = 6 =>
          /\ last.result.flow_status = "COMPLETED"
          /\ last.result.response.kind = "completion_message"
          /\ \A k \in RequiredNames("rfq_flow") :
                /\ k \in DOMAIN last.result.filled_slots
                /\ last.result.filled_slots[k] = RfqRequired(4)[k]
          /\ active_flows[last.session] = NoFlow

C3_Witness ==
    /\ rfqStep = 6
    /\ last.result.flow_status = "COMPLETED"
    /\ last.text = T_yes

(* ------------------------------------------------------------------ *)
(* C4: an affirmative token while the flow awaits confirmation         *)
(* completes the flow; the completing turn deregisters the session,    *)
(* and only a Start registers it again, so one activation returns      *)
(* COMPLETED and runs the completion callback at most once.            *)
(* ------------------------------------------------------------------ *)
C4_AffirmativeCompletesOnce ==
    [][\A s \in Sessions :
          /\ (/\ ContinueOf(s)
              /\ flows[active_flows[s]].status = "AWAITING_CONFIRMATION"
              /\ Lower(Strip(last'.text)) \in AffirmativeTokens)
             => /\ last'.result.flow_status = "COMPLETED"
                /\ last'.result.flow_name = active_flows[s]
          /\ (TurnOf(s) /\ last'.result.flow_status = "COMPLETED")
             => /\ active_flows'[s] = NoFlow
                /\ active_flows[s] = NoFlow => last'.route = "start"
                /\ last'.callbacks <= 1
          /\ (TurnOf(s) /\ last'.result.flow_status /= "COMPLETED")
             => last'.callbacks = 0
          /\ (active_flows[s] = NoFlow /\ active_flows'[s] /= NoFlow)
             => TurnOf(s) /\ last'.route = "start"
      ]_vars

C4_Witness ==
    /\ last.route = "continue"
    /\ last.text = T_yes
    /\ last.result.flow_status = "COMPLETED"
    /\ last.trace[1] = <<"AWAITING_CONFIRMATION", "COMPLETED", "set">>
    /\ active_flows[last.session] = NoFlow

(* ------------------------------------------------------------------ *)
(* C5: a negative token while the flow awaits confirmation returns    *)
(* the "what would you like to change" prompt and leaves the flow     *)
(* IN_PROGRESS, the session registered and the slot values kept.      *)
(* ------------------------------------------------------------------ *)
C5_NegativeReturnsToInProgress ==
    [][\A s \in Sessions :
          (/\ ContinueOf(s)
           /\ flows[active_flows[s]].status = "AWAITING_CONFIRMATION"
           /\ Lower(Strip(last'.text)) \in NegativeTokens)
          => /\ last'.result.response.kind = "what_to_change"
             /\ last'.result.flow_status = "IN_PROGRESS"
             /\ flows'[active_flows[s]].status = "IN_PROGRESS"
             /\ active_flows'[s] = active_flows[s]
             /\ flows'[active_flows[s]].value = flows[active_flows[s]].value
      ]_vars

(* ------------------------------------------------------------------ *)
(* C6: a flow's status changes only along NOT_STARTED -> IN_PROGRESS,  *)
(* IN_PROGRESS -> AWAITING_CONFIRMATION, IN_PROGRESS -> COMPLETED,     *)
(* AWAITING_CONFIRMATION -> COMPLETED and, from a non-terminal status, *)
(* to CANCELLED; resets apart, no call makes any other change.         *)
(* ------------------------------------------------------------------ *)
AllowedEdge(from, to) ==
    \/ from = to
    \/ from = "NOT_STARTED" /\ to = "IN_PROGRESS"
    \/ from = "IN_PROGRESS" /\ to \in {"AWAITING_CONFIRMATION", "COMPLETED"}
    \/ from = "AWAITING_CONFIRMATION" /\ to = "COMPLETED"
    \/ from \in {"NOT_STARTED", "IN_PROGRESS", "AWAITING_CONFIRMATION"} /\ to = "CANCELLED"

C6_StatusFollowsEdges ==
    \A i \in 1..Len(last.trace) :
        \/ last.trace[i][3] = "reset"
        \/ AllowedEdge(last.trace[i][1], last.trace[i][2])

(* ------------------------------------------------------------------ *)
(* C7: every value stored in a slot, the skip sentinel aside, is the   *)
(* slot's normalizer applied to the offered value and passes the       *)
(* slot's validator; this holds of the slots of every flow and of the  *)
(* filled slots every result reports.                                  *)
(* ------------------------------------------------------------------ *)
StoredOk(slot, value) ==
    \/ value = <<"None">>
    \/ value = SkipSentinel /\ ~slot.required
    \/ /\ validate(slot, value)
       /\ \E raw \in RawValues : value = normalize(slot, raw)

C7_StoredValuesNormalizedAndValid ==
    /\ \A name \in FlowNames : \A i \in 1..SlotCount(name) :
           StoredOk(SlotDef(name, i), flows[name].value[i])
    /\ last.result.flow_name /= NoFlow =>
           \A i \in 1..SlotCount(last.result.flow_name) :
               LET slot == SlotDef(last.result.flow_name, i)
               IN slot.name \in DOMAIN last.result.filled_slots =>
                      StoredOk(slot, last.result.filled_slots[slot.name])

(* ------------------------------------------------------------------ *)
(* C8 as stated: every Continue turn that attempts a fill adds exactly *)
(* one to the target slot's attempts and changes no other slot; a      *)
(* failed attempt below the maximum leaves the target slot empty, the  *)
(* flow IN_PROGRESS and the session registered.                        *)
(* ------------------------------------------------------------------ *)
FillFrame(name, i, f, g) ==
    /\ g.attempts[i] = f.attempts[i] + 1
    /\ \A j \in 1..SlotCount(name) :
           j /= i => g.value[j] = f.value[j] /\ g.attempts[j] = f.attempts[j]

C9_ActiveFlowIgnoresIntent ==
    [][\A s \in Sessions :
          /\ active_flows'[s] \in FlowNames \cup {NoFlow}
          /\ (TurnOf(s) /\ active_flows[s] /= NoFlow)
             => LET name == active_flows[s]
                IN /\ last'.route = "continue"
                   /\ last'.result.flow_name = name
                   /\ \A n \in FlowNames \ {name} : flows'[n] = flows[n]
                   /\ IF Ended(last'.result)
                      THEN active_flows'[s] = NoFlow
                      ELSE /\ active_flows'[s] = name
                           /\ \A i \in 1..Len(last'.trace) : last'.trace[i][3] /= "reset"
                           /\ \A i \in 1..SlotCount(name) :
                                  flows[name].value[i] /= <<"None">>
                                  => flows'[name].value[i] = flows[name].value[i]
      ]_vars

C9_Witness ==
    /\ last.route = "continue"
    /\ last.intent = "NAV_RFQ"
    /\ last.result.flow_name = "tracking_flow"
    /\ last.result.flow_status = "IN_PROGRESS"
    /\ active_flows[last.session] = "tracking_flow"

(* ------------------------------------------------------------------ *)
(* C10: when a turn returns COMPLETED, every required slot of the flow *)
(* is in the returned filledSlots, the session has no active flow and  *)
(* the flow definition is reset: status NOT_STARTED, every slot empty, *)
(* every attempts counter 0.                                           *)
(* ------------------------------------------------------------------ *)
C10_CompletedLeavesFlowReset ==
    last.result.flow_status = "COMPLETED" =>
        /\ last.op = "process_turn"
        /\ \A k \in RequiredNames(last.result.flow_name) :
               /\ k \in DOMAIN last.result.filled_slots
               /\ last.result.filled_slots[k] /= <<"None">>
        /\ active_flows[last.session] = NoFlow
        /\ IsReset(last.result.flow_name, flows[last.result.flow_name])

C10_Witness ==
    /\ last.result.flow_status = "COMPLETED"
    /\ last.result.flow_name = "tracking_flow"
    /\ last.route = "continue"
    /\ last.result.filled_slots = [order_number |-> V_order]

(* ------------------------------------------------------------------ *)
(* C11: a Continue turn whose text contains a cancellation phrase is   *)
(* cancelled before anything else is looked at: whatever the flow's    *)
(* status and next slot, the result is CANCELLED with the generic      *)
(* acknowledgment and empty filledSlots, no fill is attempted, the     *)
(* session is deregistered and the flow reset.                         *)
(* ------------------------------------------------------------------ *)
HasCancelPhrase(text) ==
    \E k \in 1..Len(cancel_phrases) : Contains(Lower(text), cancel_phrases[k])

C11_CancelPhraseFirst ==
    [][\A s \in Sessions :
          (ContinueOf(s) /\ HasCancelPhrase(last'.text))
          => LET name == active_flows[s]
             IN /\ last'.result.flow_status = "CANCELLED"
                /\ last'.result.flow_name = name
                /\ last'.result.response.kind = "cancel_ack"
                /\ last'.result.filled_slots = [n \in {} |-> <<"None">>]
                /\ last'.fill.slot = "None"
                /\ last'.trace[1] = <<flows[name].status, "CANCELLED", "set">>
                /\ active_flows'[s] = NoFlow
                /\ IsReset(name, flows'[name])
      ]_vars

C11_Witness ==
    /\ last.route = "continue"
    /\ last.text = T_cancel
    /\ last.result.flow_status = "CANCELLED"
    /\ last.trace[1] = <<"AWAITING_CONFIRMATION", "CANCELLED", "set">>
    /\ active_flows[last.session] = NoFlow

(* ------------------------------------------------------------------ *)
(* C13: a completion callback that raises changes nothing: for every   *)
(* state and every turn, the result, the flows and the registry after  *)
(* the turn are the same whether the callback raises or returns, and   *)
(* a completing turn whose callback raised still leaves the session    *)
(* deregistered and the flow reset.                                    *)
(* ------------------------------------------------------------------ *)
C13_CallbackFailureSwallowed ==
    /\ \A s \in Sessions : \A in \in InputsOf(s) :
          LET ok == process_turn([Context EXCEPT !.raises = FALSE],
                                 in.intent, in.entities, in.user_text, s)
              bad == process_turn([Context EXCEPT !.raises = TRUE],
                                  in.intent, in.entities, in.user_text, s)
          IN /\ bad.result = ok.result
             /\ bad.c.flows = ok.c.flows
             /\ bad.c.active_flows = ok.c.active_flows
             /\ bad.c.callbacks = ok.c.callbacks
    /\ last.raised =>
          /\ last.callbacks = 1
          /\ last.result.flow_status = "COMPLETED"
          /\ last.result.flow_name \in on_complete
          /\ RequiredNames(last.result.flow_name) \subseteq DOMAIN last.result.filled_slots
          /\ active_flows[last.session] = NoFlow
          /\ IsReset(last.result.flow_name, flows[last.result.flow_name])

C13_Witness ==
    /\ last.raised
    /\ last.callbacks = 1
    /\ last.result.flow_status = "COMPLETED"
    /\ last.result.flow_name = "rfq_flow"
    /\ last.result.response.kind = "completion_message"
    /\ active_flows[last.session] = NoFlow

(* ------------------------------------------------------------------ *)
(* C12: no exception propagates out of a turn: whatever the session    *)
(* holds and whatever the text, the pipeline ends with a response      *)
(* object, never with an exception.                                    *)
(* ------------------------------------------------------------------ *)
C12_NoTurnRaises == ~turn.raised

(* ------------------------------------------------------------------ *)
(* C14: a session that has accumulated product "bearing" and quantity  *)
(* "500" and takes a turn that brings the product "actuator" and no    *)
(* quantity ends the turn with product "actuator" and no quantity.     *)
(* ------------------------------------------------------------------ *)
C14_ShiftDropsQuantity ==
    [][\A s \in PipeSessions :
          ( /\ contexts[s]["product"] = Str(V_bearing)
            /\ contexts[s]["quantity"] = Str(T_500)
            /\ turn'.session = s
            /\ ~turn'.idle
            /\ turn'.product = V_actuator
            /\ "quantity" \notin turn'.types
            /\ turn'.incoming["quantity"] = NoValue )
          => /\ contexts'[s]["product"] = Str(V_actuator)
             /\ contexts'[s]["quantity"] = NoValue]_vars

(* ------------------------------------------------------------------ *)
(* C15: add_turn with an incoming product that differs, ignoring case, *)
(* from the accumulated product removes exactly quantity, price,       *)
(* specs, date and order_number before merging; every other key keeps  *)
(* its value unless the incoming entities overwrite it; with no        *)
(* accumulated product, no incoming product or the same product        *)
(* nothing is removed.  The accumulated entities are those left by the *)
(* expiry check add_turn starts with.                                  *)
(* ------------------------------------------------------------------ *)
C15_Pruned == {"quantity", "price", "specs", "date", "order_number"}

C15_AddTurnPrunesProductScoped ==
    [][\A s \in PipeSessions :
          (turn'.session = s /\ turn'.path = "add_turn") =>
              LET before == IF turn'.idle THEN NoContext ELSE contexts[s]
                  incoming == turn'.incoming
                  differs == /\ incoming["product"] /= NoValue
                             /\ before["product"] /= NoValue
                             /\ Lower(incoming["product"].v) /= Lower(before["product"].v)
              IN \A k \in CtxKeys :
                    contexts'[s][k] =
                        IF incoming[k] /= NoValue THEN incoming[k]
                        ELSE IF differs /\ k \in C15_Pruned THEN NoValue
                        ELSE before[k]]_vars

C15_Witness ==
    /\ turn.path = "add_turn"
    /\ turn.stage.product = Str(V_bearing)
    /\ turn.incoming = Incoming({}, V_actuator)
    /\ contexts["s1"]["product"] = Str(V_actuator)
    /\ contexts["s1"]["email"] = Str(T_500)
    /\ contexts["s1"]["company"] = Str(T_500)
    /\ \A k \in C15_Pruned : contexts["s1"][k] = NoValue

(* ------------------------------------------------------------------ *)
(* C16: in a turn whose extracted product differs, ignoring case, from *)
(* the accumulated product, the active flow of the session is cleared  *)
(* before dialog processing and the accumulated product becomes the    *)
(* extracted one; when the two are equal or one is absent, the topic   *)
(* shift stage clears no flow and leaves the accumulated product.      *)
(* ------------------------------------------------------------------ *)
C16_Differs(accumulated, extracted) ==
    /\ accumulated /= NoValue
    /\ extracted /= None
    /\ Lower(accumulated.v) /= Lower(extracted)

C16_TopicShiftClearsFlow ==
    [][\A s \in PipeSessions :
          (turn'.session = s /\ turn'.path /= "add_turn") =>
              LET before == IF turn'.idle THEN NoContext ELSE contexts[s]
              IN IF C16_Differs(before["product"], turn'.product)
                 THEN /\ turn'.stage.active = NoFlow
                      /\ turn'.stage.product = Str(turn'.product)
                 ELSE /\ turn'.stage.active = active_flows[s]
                      /\ turn'.stage.product = before["product"]]_vars

(* the same statement for the turns whose accumulated product is a text *)
C16_TopicShiftClearsFlowOfTexts ==
    [][\A s \in PipeSessions :
          (turn'.session = s /\ turn'.path /= "add_turn" /\ ~contexts[s]["product"].list) =>
              LET before == IF turn'.idle THEN NoContext ELSE contexts[s]
              IN IF C16_Differs(before["product"], turn'.product)
                 THEN /\ turn'.stage.active = NoFlow
                      /\ turn'.stage.product = Str(turn'.product)
                 ELSE /\ turn'.stage.active = active_flows[s]
                      /\ turn'.stage.product = before["product"]]_vars

(* ------------------------------------------------------------------ *)
(* Vocabulary of the arbitration properties                            *)
(* ------------------------------------------------------------------ *)

(* the last step was a turn of the pipeline that ended with a response *)
Answered == turn.session /= "None" /\ turn.path /= "add_turn" /\ ~turn.raised

HasCancelToken(text) ==
    \E w \in {<<"c", "a", "n", "c", "e", "l">>, <<"s", "t", "o", "p">>, <<"a", "b", "o", "r", "t">>, <<"t", "e", "r", "m", "i", "n", "a", "t", "e">>, <<"e", "x", "i", "t">>, <<"q", "u", "i", "t">>} :
        w \in Tokens(Lower(text))

HasWhitelistTerm(text) ==
    \E w \in {<<"a", "c", "c", "o", "u", "n", "t", " ", "m", "a", "n", "a", "g", "e", "r">>, <<"s", "a", "l", "e", "s", " ", "r", "e", "p">>, <<"r", "e", "p", "r", "e", "s", "e", "n", "t", "a", "t", "i", "v", "e">>, <<"s", "u", "p", "p", "o", "r", "t">>,
              <<"h", "u", "m", "a", "n">>, <<"a", "g", "e", "n", "t">>} : Contains(Lower(text), w)

HasOutOfScopePhrase(text) ==
    \E w \in {<<"j", "o", "k", "e">>, <<"w", "e", "a", "t", "h", "e", "r">>, <<"p", "r", "e", "s", "i", "d", "e", "n", "t">>, <<"p", "o", "l", "i", "t", "i", "c", "s">>, <<"r", "e", "c", "i", "p", "e">>,
              <<"c", "a", "p", "i", "t", "a", "l", " ", "o", "f">>, <<"w", "h", "o", " ", "i", "s">>, <<"g", "a", "m", "e">>, <<"m", "o", "v", "i", "e">>} : WordSearch(Lower(text), w)

(* ------------------------------------------------------------------ *)
(* C17: whenever the topic shift condition holds in a turn, the final  *)
(* method of the arbitration is "topic_shift_correction" and the final *)
(* intent is the one the topic shift stage chose.                      *)
(* ------------------------------------------------------------------ *)
C17_TopicShiftWins ==
    (Answered /\ turn.shift = "shift") =>
        /\ turn.chosen.method = "topic_shift_correction"
        /\ turn.final.method = "topic_shift_correction"
        /\ turn.final.intent = turn.chosen.intent

(* ------------------------------------------------------------------ *)
(* C18: a turn whose text is not the system sentinel and holds one of  *)
(* the words cancel, stop, abort, terminate, exit, quit results in the *)
(* intent CONTROL_CANCEL with confidence 1.0.                          *)
(* ------------------------------------------------------------------ *)
C18_CancelTokenWins ==
    (Answered /\ Strip(turn.text) /= SystemSentinel /\ HasCancelToken(turn.text)) =>
        /\ turn.final.intent = "CONTROL_CANCEL"
        /\ turn.final.confidence = 100

(* ------------------------------------------------------------------ *)
(* C19: a turn whose text is not the system sentinel, holds no cancel  *)
(* word and no whitelist term, brought no product, and holds an        *)
(* out-of-scope phrase as a whole word results in the intent           *)
(* OUT_OF_SCOPE with confidence 1.0.                                   *)
(* ------------------------------------------------------------------ *)
C19_OutOfScopeGuard ==
    ( /\ Answered
      /\ Strip(turn.text) /= SystemSentinel
      /\ ~HasCancelToken(turn.text)
      /\ turn.product = None
      /\ ~HasWhitelistTerm(turn.text)
      /\ HasOutOfScopePhrase(turn.text) ) =>
        /\ turn.final.intent = "OUT_OF_SCOPE"
        /\ turn.final.confidence = 100

(* ------------------------------------------------------------------ *)
(* C20: a turn that brought a product, or whose text holds a whitelist *)
(* term, never results in the intent OUT_OF_SCOPE, at no stage of the  *)
(* arbitration and not in the response, whatever else the text holds.  *)
(* ------------------------------------------------------------------ *)
C20_NeverOutOfScope ==
    (Answered /\ (turn.product /= None \/ HasWhitelistTerm(turn.text))) =>
        /\ turn.guard.intent /= "OUT_OF_SCOPE"
        /\ turn.chosen.intent /= "OUT_OF_SCOPE"
        /\ turn.final.intent /= "OUT_OF_SCOPE"
        /\ turn.intent /= "OUT_OF_SCOPE"
        /\ turn.path /= "out_of_scope"

C20_Witness ==
    /\ Answered
    /\ turn.text = U_joke_bearings
    /\ turn.product = V_bearing
    /\ HasOutOfScopePhrase(turn.text)
    /\ turn.final.intent /= "OUT_OF_SCOPE"

(* ------------------------------------------------------------------ *)
(* C21: a turn whose trimmed text is the sentinel SYSTEM_RFQ_SUBMITTED *)
(* results, whatever the session holds, in the intent                  *)
(* SYSTEM_RFQ_SUBMITTED with confidence 1.0 and method system_signal,  *)
(* and is answered from the template of that intent (the RFQ-received  *)
(* message with action "marketplace"); no later stage replaces it.     *)
(* ------------------------------------------------------------------ *)
C21_SystemSignalAnswered ==
    (Answered /\ Strip(turn.text) = SystemSentinel) =>
        /\ turn.guard = Arb("SYSTEM_RFQ_SUBMITTED", 100, "system_signal")
        /\ turn.final = turn.guard
        /\ turn.path = "template"
        /\ turn.intent = "SYSTEM_RFQ_SUBMITTED"

(* ------------------------------------------------------------------ *)
(* C22: when the two matchers are consulted, the hybrid matcher        *)
(* returns the semantic result at once if its confidence is above      *)
(* 0.85; otherwise, with both results, the semantic one when its       *)
(* confidence is at least 0.60 or at least the fuzzy one, else the     *)
(* fuzzy one; with one result, that one; with none, no intent and the  *)
(* raw fuzzy confidence.  The fuzzy matcher has a result when its best *)
(* score is at least 0.5.                                              *)
(* ------------------------------------------------------------------ *)
C22_Consulted ==
    /\ applied.op = "detect_intent_hybrid"
    /\ applied.count = 1
    /\ applied.layers.fuzzy = "returns"
    /\ Strip(Lower(applied.text)) \notin continuity_words
    /\ ~AnyIn(category_patterns, Strip(Lower(applied.text)))

C22_HybridArbitration ==
    C22_Consulted =>
        LET s == IF applied.layers.semantic = "ready" THEN applied.m.semantic ELSE NoMatch
            f == applied.m.fuzzy
            semantic == [intent |-> s.intent, confidence |-> s.confidence, method |-> "semantic"]
            fuzzy == [intent |-> f.intent, confidence |-> f.score, method |-> "fuzzy"]
            hasS == s.intent /= "None"
            hasF == f.score >= 50
        IN applied.result =
              IF hasS /\ s.confidence > 85 THEN semantic
              ELSE IF hasS /\ hasF
              THEN IF s.confidence >= 60 \/ s.confidence >= f.score THEN semantic ELSE fuzzy
              ELSE IF hasS THEN semantic
              ELSE IF hasF THEN fuzzy
              ELSE [intent |-> "None", confidence |-> f.score, method |-> "none"]

C22_Witness ==
    /\ C22_Consulted
    /\ applied.layers.semantic = "ready"
    /\ applied.m.semantic.confidence = 55
    /\ applied.m.fuzzy.score = 90
    /\ applied.result = [intent |-> "INFO_SHIPPING", confidence |-> 90, method |-> "fuzzy"]

(* ------------------------------------------------------------------ *)
(* C23: a matcher layer that is absent, not ready or raises is         *)
(* skipped: the hybrid matcher returns, and what it returns is what    *)
(* the other layer alone gives.                                        *)
(* ------------------------------------------------------------------ *)
C23_SemanticAlone(m) ==
    IF m.semantic /= NoMatch
    THEN [intent |-> m.semantic.intent, confidence |-> m.semantic.confidence,
          method |-> "semantic"]
    ELSE [intent |-> "None", confidence |-> 0, method |-> "none"]

C23_FuzzyAlone(m) ==
    IF m.fuzzy.score >= 50
    THEN [intent |-> m.fuzzy.intent, confidence |-> m.fuzzy.score, method |-> "fuzzy"]
    ELSE [intent |-> "None", confidence |-> m.fuzzy.score, method |-> "none"]

C23_Applied ==
    /\ applied.op = "detect_intent_hybrid"
    /\ applied.count = 1
    /\ Strip(Lower(applied.text)) \notin continuity_words
    /\ ~AnyIn(category_patterns, Strip(Lower(applied.text)))

C23_FailedLayerSkipped ==
    C23_Applied =>
        /\ applied.result.method /= "raised"
        /\ (applied.layers.semantic /= "ready" /\ applied.layers.fuzzy = "returns")
              => applied.result = C23_FuzzyAlone(applied.m)
        /\ (applied.layers.semantic = "ready" /\ applied.layers.fuzzy = "raises")
              => applied.result = C23_SemanticAlone(applied.m)

(* the same statement for the semantic layer alone *)
C23_FailedSemanticLayerSkipped ==
    (C23_Applied /\ applied.layers.fuzzy = "returns") =>
        /\ applied.result.method /= "raised"
        /\ applied.layers.semantic /= "ready" => applied.result = C23_FuzzyAlone(applied.m)

(* ------------------------------------------------------------------ *)
(* C24: the intent corrections are idempotent: applied to their own    *)
(* output with the same text and entities they change nothing.         *)
(* ------------------------------------------------------------------ *)
C24_CorrectionsIdempotent ==
    (applied.op = "corrections" /\ applied.count >= 2) => applied.result = applied.previous

C24_Witness ==
    /\ applied.op = "corrections"
    /\ applied.count = 2
    /\ applied.text = U_status_bearings
    /\ applied.given.intent = "NAV_QUOTE"
    /\ applied.previous = Arb("INFO_TRACK", 100, "keyword_correction")
    /\ applied.result = applied.previous

(* ------------------------------------------------------------------ *)
(* C25: whenever the text holds both "how long" and "deliver", the     *)
(* final intent of the arbitration is INFO_LEADTIME with confidence    *)
(* 1.0, whatever the matchers returned.                                *)
(* ------------------------------------------------------------------ *)
C25_LeadTimeForced ==
    ( /\ applied.op = "corrections"
      /\ applied.count >= 1
      /\ Contains(Lower(applied.text), <<"h", "o", "w", " ", "l", "o", "n", "g">>)
      /\ Contains(Lower(applied.text), <<"d", "e", "l", "i", "v", "e", "r">>) ) =>
        /\ applied.result.intent = "INFO_LEADTIME"
        /\ applied.result.confidence = 100

(* amended: the intent is INFO_LEADTIME with confidence 1.0 unless a later
   correction applies: an RFQ id in the text, "rfq" with "status", or
   "price of" *)
C25_LeadTimeForcedUnlessOverridden ==
    ( /\ applied.op = "corrections"
      /\ applied.count >= 1
      /\ Contains(Lower(applied.text), <<"h", "o", "w", " ", "l", "o", "n", "g">>)
      /\ Contains(Lower(applied.text), <<"d", "e", "l", "i", "v", "e", "r">>)
      /\ OfType(CorrectionMemo[applied.text], "rfq_id") = {}
      /\ ~(Contains(Lower(applied.text), <<"r", "f", "q">>) /\ Contains(Lower(applied.text), <<"s", "t", "a", "t", "u", "s">>))
      /\ ~Contains(Lower(applied.text), <<"p", "r", "i", "c", "e", " ", "o", "f">>) ) =>
        applied.result = [intent |-> "INFO_LEADTIME", confidence |-> 100,
                          method |-> "keyword_correction"]

C25_Witness ==
    /\ applied.op = "corrections"
    /\ applied.count = 1
    /\ applied.text = U_howlong
    /\ applied.given = Arb("INFO_SHIPPING", 58, "fuzzy")
    /\ applied.result = Arb("INFO_LEADTIME", 100, "keyword_correction")

(* ------------------------------------------------------------------ *)
(* C26: after any sequence of turns the accumulated entities of a      *)
(* session hold at most one value for each entity type: a single       *)
(* value, never a collection of values.                                *)
(* ------------------------------------------------------------------ *)
C26_OneValuePerType ==
    \A s \in PipeSessions : \A k \in CtxKeys : ~contexts[s][k].list

(* ------------------------------------------------------------------ *)
(* C27: the turn history never holds more than max_turns turns; a call *)
(* of add_turn on a full history evicts the oldest turn, and the turn  *)
(* it adds is the last element.                                        *)
(* ------------------------------------------------------------------ *)
C27_HistoryBounded ==
    [][/\ Len(conv'.history) <= 10
       /\ conv'.op = "add_turn" =>
             LET before == IF now - conv.last_activity > 30 THEN <<>> ELSE conv.history
                 kept == IF Len(before) = 10 THEN Tail(before) ELSE before
             IN /\ conv'.history = kept \o <<conv'.added>>
                /\ conv'.history[Len(conv'.history)] = conv.added + 1]_vars

C27_Witness ==
    /\ conv.op = "add_turn"
    /\ Len(conv.history) = 10
    /\ conv.history[1] = 2
    /\ conv.history[10] = 11

(* ------------------------------------------------------------------ *)
(* C30: when more than expiry_minutes have passed since last_activity, *)
(* the next operation of any kind (add_turn, resolve_reference, the    *)
(* history and entity accessors, and set/get/clear of the dialog       *)
(* state) first clears history, entities and dialog state, keeping     *)
(* session_id and user_profile; at or below the threshold nothing is   *)
(* cleared.                                                            *)
(* ------------------------------------------------------------------ *)
C30_Idle == now - conv.last_activity

(* what the step leaves of the context it was given *)
C30_StepOn(before) ==
    /\ conv'.session_id = conv.session_id
    /\ conv'.user_profile = conv.user_profile
    /\ conv'.op \in Readers \cup {"get_dialog_state"} =>
         /\ conv'.history = before.history
         /\ conv'.entities = before.entities
         /\ conv'.dialog_state = before.dialog_state
    /\ conv'.op = "set_dialog_state" =>
         /\ conv'.history = before.history
         /\ conv'.entities = before.entities
         /\ before.dialog_state \subseteq conv'.dialog_state
         /\ conv'.dialog_state \subseteq before.dialog_state \cup DialogStateKeys
         /\ conv'.dialog_state /= {}
    /\ conv'.op = "clear_dialog_state" =>
         /\ conv'.history = before.history
         /\ conv'.entities = before.entities
         /\ conv'.dialog_state = {}
    /\ conv'.op = "add_turn" =>
         /\ Len(conv'.history) = IF Len(before.history) = 10 THEN 10
                                 ELSE Len(before.history) + 1
         /\ \A k \in CtxKeys : before.entities[k] = NoValue \/ conv'.entities[k] /= NoValue
                                 \/ k \in {"quantity", "price", "rfq_id"}
         /\ conv'.dialog_state = before.dialog_state

C30_Cleared ==
    [conv EXCEPT !.history = <<>>, !.entities = NoContext, !.dialog_state = {}]

C30_Operation(ops) ==
    conv'.op \in ops =>
        IF C30_Idle > 30 THEN C30_StepOn(C30_Cleared) ELSE C30_StepOn(conv)

C30_ExpiryBeforeEveryOperation ==
    [][C30_Operation(Readers \cup {"add_turn", "set_dialog_state", "get_dialog_state",
                                   "clear_dialog_state"})]_vars

(* the same for add_turn, resolve_reference and the accessors alone *)
C30_ExpiryBeforeCheckedOperations ==
    [][C30_Operation(Readers \cup {"add_turn"})]_vars

C30_CheckedWitness ==
    /\ conv.op \in Readers
    /\ conv.history = <<>>
    /\ conv.added > 0
    /\ C30_Idle > 30

(* ------------------------------------------------------------------ *)
(* C28: the number of contexts the store holds never exceeds its       *)
(* capacity, after any sequence of get_or_create, save and delete.     *)
(* ------------------------------------------------------------------ *)
C28_StoreBounded ==
    Len(store.contexts) <= max_contexts

(* ------------------------------------------------------------------ *)
(* C29: get_or_create for an unknown session on a store of n >=        *)
(* capacity contexts removes exactly max(1, n div 10) contexts before  *)
(* creating the new one, those of earliest last_activity and no other; *)
(* for a known session it removes nothing and returns the stored       *)
(* context.                                                            *)
(* ------------------------------------------------------------------ *)
C29_Ids(ctxs) == {ctxs[i].session_id : i \in DOMAIN ctxs}

C29_Of(ctxs, s) == ctxs[CHOOSE i \in DOMAIN ctxs : ctxs[i].session_id = s]

C29_Removed == C29_Ids(store.contexts) \ C29_Ids(store'.contexts)

C29_Kept == C29_Ids(store.contexts) \cap C29_Ids(store'.contexts)

C29_Max(a, b) == IF a >= b THEN a ELSE b

C29_GetOrCreate ==
    IF store'.session_id \in C29_Ids(store.contexts)
    THEN /\ store'.contexts = store.contexts
         /\ store'.returned = C29_Of(store.contexts, store'.session_id)
    ELSE /\ Cardinality(C29_Removed) =
               IF Len(store.contexts) >= max_contexts
               THEN C29_Max(1, Len(store.contexts) \div 10) ELSE 0
         /\ \A r \in C29_Removed : \A k \in C29_Kept :
               C29_Of(store.contexts, r).last_activity
                   <= C29_Of(store.contexts, k).last_activity
         /\ \A k \in C29_Kept : C29_Of(store'.contexts, k) = C29_Of(store.contexts, k)
         /\ C29_Ids(store'.contexts) = C29_Kept \cup {store'.session_id}
         /\ Len(store'.contexts) = Cardinality(C29_Ids(store'.contexts))
         /\ store'.returned = [session_id |-> store'.session_id, last_activity |-> now]
         /\ C29_Of(store'.contexts, store'.session_id) = store'.returned

C29_EvictsOldestTenth ==
    [][store'.op = "get_or_create" => C29_GetOrCreate]_vars

C29_Witness ==
    /\ store.op = "get_or_create"
    /\ store.held = 20
    /\ Len(store.contexts) = 19
    /\ store.contexts[19] = store.returned
    /\ store.returned = [session_id |-> 21, last_activity |-> now]
    /\ store.contexts[1] = [session_id |-> 1, last_activity |-> now]
    /\ store.contexts[2] = [session_id |-> 4, last_activity |-> 0]

(* ------------------------------------------------------------------ *)
(* C31: resolve_reference replaces every whole-word, case-insensitive  *)
(* occurrence of a referring phrase by the first accumulated value     *)
(* among the phrase's candidate types, unless that value already       *)
(* occurs in the evolving output; the phrases are taken in order, each *)
(* on the output of the one before; with no accumulated value for any  *)
(* candidate type the text is returned unchanged.                      *)
(* ------------------------------------------------------------------ *)
C31_Phrases ==
    << <<<<"i", "t">>, <<"product", "item">> >>, <<<<"t", "h", "a", "t">>, <<"product", "item">> >>,
       <<<<"t", "h", "i", "s">>, <<"product", "item">> >>, <<<<"t", "h", "e", " ", "p", "r", "o", "d", "u", "c", "t">>, <<"product">> >>,
       <<<<"t", "h", "e", " ", "i", "t", "e", "m">>, <<"product", "item">> >>, <<<<"t", "h", "e", "m">>, <<"product">> >>,
       <<<<"t", "h", "o", "s", "e">>, <<"product">> >>, <<<<"t", "h", "e", " ", "o", "r", "d", "e", "r">>, <<"order_number">> >>,
       <<<<"m", "y", " ", "o", "r", "d", "e", "r">>, <<"order_number">> >> >>

(* the first accumulated value among the candidate types, None without one *)
C31_Value(ents, types) ==
    LET present == {i \in 1..Len(types) : ents[types[i]].v /= None}
    IN IF present = {} THEN None
       ELSE ents[types[CHOOSE i \in present : \A j \in present : i <= j]].v

(* a whole-word occurrence of phrase p in s at offset k, whatever its case *)
C31_Occurs(s, p, k) ==
    /\ k + Len(p) <= Len(s)
    /\ Lower(SubSeq(s, k + 1, k + Len(p))) = p
    /\ k = 0 \/ ~IsWordChar(s[k])
    /\ k + Len(p) = Len(s) \/ ~IsWordChar(s[k + Len(p) + 1])

C31_OccursIn(s, p) == \E k \in 0..Len(s) : C31_Occurs(s, p, k)

(* out with every occurrence of p from offset k on replaced by v *)
RECURSIVE C31_Replaced(_, _, _, _)
C31_Replaced(out, p, v, k) ==
    IF k >= Len(out) THEN <<>>
    ELSE IF C31_Occurs(out, p, k) THEN v \o C31_Replaced(out, p, v, k + Len(p))
    ELSE <<out[k + 1]>> \o C31_Replaced(out, p, v, k + 1)

(* the output after the phrases from the i-th on *)
RECURSIVE C31_Evolve(_, _, _)
C31_Evolve(ents, out, i) ==
    IF i > Len(C31_Phrases) THEN out
    ELSE LET p == C31_Phrases[i][1]
             v == C31_Value(ents, C31_Phrases[i][2])
         IN IF C31_OccursIn(out, p) /\ v /= None /\ ~Contains(Lower(out), Lower(v))
            THEN C31_Evolve(ents, C31_Replaced(out, p, v, 0), i + 1)
            ELSE C31_Evolve(ents, out, i + 1)

C31_ResolvesReferences ==
    (applied.op = "resolve_reference" /\ applied.count = 1) =>
        /\ applied.result = C31_Evolve(applied.ents, applied.text, 1)
        /\ (\A i \in 1..Len(C31_Phrases) :
                C31_Value(applied.ents, C31_Phrases[i][2]) = None)
              => applied.result = applied.text
        /\ (applied.text = <<"W", "h", "a", "t", "'", "s", " ", "t", "h", "e", " ", "M", "O", "Q", " ", "f", "o", "r", " ", "i", "t", "?">>
                /\ applied.ents["product"].v = <<"s", "e", "r", "v", "o", " ", "m", "o", "t", "o", "r">>)
              => /\ Contains(applied.result, <<"s", "e", "r", "v", "o", " ", "m", "o", "t", "o", "r">>)
                 /\ ~C31_OccursIn(applied.result, <<"i", "t">>)

C31_Witness ==
    /\ applied.op = "resolve_reference"
    /\ applied.count = 1
    /\ applied.text = <<"W", "h", "a", "t", "'", "s", " ", "t", "h", "e", " ", "M", "O", "Q", " ", "f", "o", "r", " ", "i", "t", "?">>
    /\ applied.ents["product"].v = <<"s", "e", "r", "v", "o", " ", "m", "o", "t", "o", "r">>
    /\ applied.result = <<"W", "h", "a", "t", "'", "s", " ", "t", "h", "e", " ", "M", "O", "Q", " ", "f", "o", "r", " ", "s", "e", "r", "v", "o", " ", "m", "o", "t", "o", "r", "?">>

(* ------------------------------------------------------------------ *)
(* C32: the quantity slot of the RFQ flow rejects the raw inputs "-5"  *)
(* and "abc": neither is stored as the quantity in any normalized      *)
(* form, and each submission counts as a failed attempt on the slot.   *)
(* ------------------------------------------------------------------ *)
C32_Quantity == SlotIndex("rfq_flow", "quantity")

(* the turn answers the quantity prompt of the RFQ flow with the text *)
C32_Answers(texts) ==
    /\ active_flows["s1"] = "rfq_flow"
    /\ flows["rfq_flow"].value[1] /= None
    /\ flows["rfq_flow"].value[C32_Quantity] = None
    /\ last'.op = "process_turn"
    /\ last'.route = "continue"
    /\ last'.text \in texts

(* the answer was refused: an error on the slot with one more attempt, or the
   cancellation that ends the third failed attempt *)
C32_Refused ==
    \/ /\ flows'["rfq_flow"].value[C32_Quantity] = None
       /\ flows'["rfq_flow"].attempts[C32_Quantity]
              = flows["rfq_flow"].attempts[C32_Quantity] + 1
       /\ last'.result.error
       /\ last'.result.flow_status = "IN_PROGRESS"
    \/ /\ flows["rfq_flow"].attempts[C32_Quantity] = 2
       /\ last'.result.flow_status = "CANCELLED"
       /\ active_flows'["s1"] = NoFlow

C32_QuantityRejects ==
    [][C32_Answers({<<"-", "5">>, <<"a", "b", "c">>}) => C32_Refused]_vars

(* the same for "abc" alone *)
C32_QuantityRejectsLetters ==
    [][C32_Answers({<<"a", "b", "c">>}) => C32_Refused]_vars

(* ------------------------------------------------------------------ *)
(* C36: in Continue, when every required slot is filled, an optional   *)
(* slot is still empty and the trimmed lower-cased text is one of      *)
(* "skip", "no", "none", "n/a", the earliest empty optional slot is    *)
(* set to "N/A" without validation and without counting an attempt, no *)
(* other slot changes, and the flow goes on to the next prompt, the    *)
(* confirmation or the completion.                                     *)
(* ------------------------------------------------------------------ *)
C36_Open(n) == {i \in 1..SlotCount(n) : flows[n].value[i] = None}

C36_Skipping(n) ==
    /\ active_flows["s1"] = n
    /\ last'.op = "process_turn"
    /\ last'.session = "s1"
    /\ last'.route = "continue"
    /\ C36_Open(n) /= {}
    /\ \A i \in C36_Open(n) : ~SlotDef(n, i).required
    /\ Strip(Lower(last'.text)) \in {<<"s", "k", "i", "p">>, <<"n", "o">>, <<"n", "o", "n", "e">>, <<"n", "/", "a">>}

(* the values of the slots once the earliest optional slot holds the sentinel *)
C36_Skipped(n) ==
    [i \in 1..SlotCount(n) |->
        IF i \in C36_Open(n) /\ \A j \in C36_Open(n) : i <= j THEN <<"N", "/", "A">>
        ELSE flows[n].value[i]]

C36_Advanced(n) ==
    LET left == {i \in 1..SlotCount(n) : C36_Skipped(n)[i] = None}
        result == last'.result
    IN /\ \A i \in 1..SlotCount(n) \ left :
             result.filled_slots[SlotDef(n, i).name] = C36_Skipped(n)[i]
       /\ DOMAIN result.filled_slots = {SlotDef(n, i).name : i \in 1..SlotCount(n) \ left}
       /\ ~result.error
       /\ IF left /= {}
          THEN /\ result.flow_status = "IN_PROGRESS"
               /\ result.response.kind = "prompt"
               /\ flows'[n].value = C36_Skipped(n)
               /\ flows'[n].attempts = flows[n].attempts
          ELSE IF FlowDef(n).confirmation_prompt
          THEN /\ result.flow_status = "AWAITING_CONFIRMATION"
               /\ result.response.kind = "confirmation_prompt"
               /\ flows'[n].status = "AWAITING_CONFIRMATION"
               /\ flows'[n].value = C36_Skipped(n)
               /\ flows'[n].attempts = flows[n].attempts
               /\ active_flows'["s1"] = n
          ELSE /\ result.flow_status = "COMPLETED"
               /\ active_flows'["s1"] = NoFlow

C36_SkipStoresSentinel ==
    [][\A n \in FlowNames : C36_Skipping(n) => C36_Advanced(n)]_vars

C36_Witness ==
    /\ last.op = "process_turn"
    /\ last.route = "continue"
    /\ last.text = <<" ", "S", "k", "i", "p", " ">>
    /\ last.result.flow_status = "AWAITING_CONFIRMATION"
    /\ flows["rfq_flow"].value[5] = <<"N", "/", "A">>
    /\ flows["rfq_flow"].value[2] = <<"5", "0", "0">>
    /\ flows["rfq_flow"].attempts[5] = 0

(* ------------------------------------------------------------------ *)
(* C33, C37: overlap resolution of the entity extractor                *)
(* ------------------------------------------------------------------ *)

C33_Intersect(e, d) ==
    (IF e.start >= d.start THEN e.start ELSE d.start)
        < (IF e.end <= d.end THEN e.end ELSE d.end)

(* C33: no two entities of a result of extract_all have intersecting
   character spans, whatever their types; neither do two entities that
   _resolve_overlaps leaves of a list of candidates *)
C33_NoIntersectingSpans ==
    /\ applied.op = "extract_all" /\ applied.count = 1
         => \A e \in applied.result : \A d \in applied.result :
                e /= d => ~C33_Intersect(e, d)
    /\ applied.op = "_resolve_overlaps" /\ applied.count = 1
         => \A i \in 1..Len(applied.result) : \A j \in 1..Len(applied.result) :
                i /= j => ~C33_Intersect(applied.result[i], applied.result[j])

(* "REQ 12345 units": the RFQ id and the quantity intersect, the quantity
   alone is returned *)
C33_Witness ==
    /\ applied.op = "extract_all"
    /\ applied.count = 1
    /\ applied.text = <<"R", "E", "Q", " ", "1", "2", "3", "4", "5", " ", "u", "n", "i", "t", "s">>
    /\ {<<e.type, e.start, e.end>> : e \in applied.result} = {<<"quantity", 4, 15>>}

C37_Length(e) == e.end - e.start

(* d wins against e: their spans intersect and d is longer, or as long and
   more confident *)
C37_Wins(d, e) ==
    /\ C33_Intersect(d, e)
    /\ \/ C37_Length(d) > C37_Length(e)
       \/ C37_Length(d) = C37_Length(e) /\ d.confidence > e.confidence

C37_Tied(d, e) ==
    /\ C33_Intersect(d, e)
    /\ C37_Length(d) = C37_Length(e)
    /\ d.confidence = e.confidence

C37_Untied(list, i) == \A j \in 1..Len(list) : j /= i => ~C37_Tied(list[j], list[i])

C37_Kept(list) == {list[i] : i \in 1..Len(list)}

(* C37: a candidate with no exact tie is dropped by _resolve_overlaps if and
   only if some candidate wins against it; of a list without ties the
   survivors are the candidates nothing wins against, in whatever order the
   list holds them *)
C37_DropsTheWorse ==
    applied.op = "_resolve_overlaps" /\ applied.count = 1
      => LET list == applied.entities
         IN /\ \A i \in 1..Len(list) :
                  C37_Untied(list, i)
                    => (list[i] \notin C37_Kept(applied.result)
                          <=> \E j \in 1..Len(list) : C37_Wins(list[j], list[i]))
            /\ (\A i \in 1..Len(list) : C37_Untied(list, i))
                 => C37_Kept(applied.result)
                      = {e \in C37_Kept(list) : \A d \in C37_Kept(list) : ~C37_Wins(d, e)}

(* three candidates without ties: one dropped for its length by a less
   confident one, one dropped for its confidence, one kept *)
C37_Witness ==
    /\ applied.op = "_resolve_overlaps"
    /\ applied.count = 1
    /\ Len(applied.entities) = 3
    /\ \A i \in 1..3 : C37_Untied(applied.entities, i)
    /\ Len(applied.result) = 1
    /\ \E i \in 1..3 : \E j \in 1..3 :
          /\ C33_Intersect(applied.entities[i], applied.entities[j])
          /\ C37_Length(applied.entities[j]) > C37_Length(applied.entities[i])
          /\ applied.entities[j].confidence < applied.entities[i].confidence
    /\ \E i \in 1..3 : \E j \in 1..3 :
          /\ C33_Intersect(applied.entities[i], applied.entities[j])
          /\ C37_Length(applied.entities[j]) = C37_Length(applied.entities[i])
          /\ applied.entities[j].confidence > applied.entities[i].confidence

(* ------------------------------------------------------------------ *)
(* C34: quantity normalization                                         *)
(* ------------------------------------------------------------------ *)

(* the integer string of a captured quantity: commas stripped, a trailing
   "k" taken as a multiplier of 1000, what is left of a fraction cut off *)
C34_Scaled(value) ==
    LET lowered == SelectSeq(Lower(value), NotComma)
        k == lowered[Len(lowered)] = "k"
        clean == IF k THEN SubSeq(lowered, 1, Len(lowered) - 1) ELSE lowered
    IN LimbsStr(DivPow10(MulAdd(DigitsLimbs(SelectSeq(clean, NotPoint)),
                                IF k THEN 1000 ELSE 1, 0),
                         FractionLen(clean)).q)

C34_Reads(value) ==
    LET lowered == SelectSeq(Lower(value), NotComma)
    IN IsDecimal(IF lowered[Len(lowered)] = "k"
                 THEN SubSeq(lowered, 1, Len(lowered) - 1) ELSE lowered)

C34_Quantities == {e.value : e \in {d \in applied.result : d.type = "quantity"}}

(* C34: a captured quantity is normalized to the integer string of its
   digits, commas stripped and a trailing "k" applied as a multiplier of
   1000, fractions included; "2.01k pieces" gives the quantity "2010" *)
C34_NormalizesQuantities ==
    /\ applied.op = "_normalize_value" /\ applied.count = 1 /\ C34_Reads(applied.text)
         => applied.result = C34_Scaled(applied.text)
    /\ applied.op = "extract_all" /\ applied.count = 1 /\ applied.text = <<"2", ".", "0", "1", "k", " ", "p", "i", "e", "c", "e", "s">>
         => C34_Quantities = {<<"2", "0", "1", "0">>}

(* the examples of the claim: "20k pieces" gives "20000", "1.5k" gives
   "1500", "500 units" gives "500" *)
C34_NormalizesExamples ==
    /\ applied.op = "_normalize_value" /\ applied.count = 1 /\ applied.text = <<"1", ".", "5", "k">>
         => applied.result = <<"1", "5", "0", "0">>
    /\ applied.op = "extract_all" /\ applied.count = 1 /\ applied.text = <<"2", "0", "k", " ", "p", "i", "e", "c", "e", "s">>
         => C34_Quantities = {<<"2", "0", "0", "0", "0">>}
    /\ applied.op = "extract_all" /\ applied.count = 1 /\ applied.text = <<"5", "0", "0", " ", "u", "n", "i", "t", "s">>
         => C34_Quantities = {<<"5", "0", "0">>}

(* ------------------------------------------------------------------ *)
(* C35: the pricing flow in the pipeline                               *)
(* ------------------------------------------------------------------ *)

C35_Value(n) == flows["pricing_flow"].value[SlotIndex("pricing_flow", n)]

(* the session is in the pricing flow, its product given and the question
   about a large order open *)
C35_Awaiting(s) ==
    /\ active_flows[s] = "pricing_flow"
    /\ flows["pricing_flow"].status = "IN_PROGRESS"
    /\ C35_Value("product") /= None
    /\ C35_Value("large_order_check") = None

(* the turn just made answered with the price question for the product *)
C35_Prompted ==
    /\ turn.dialog.response.kind = "pricing_prompt"
    /\ turn.dialog.response.slot = "large_order_check"
    /\ turn.dialog.response.price = PriceMemo[C35_Value("product")]

(* the session answers the price question with a text without cancel phrase *)
C35_Answers(s) ==
    /\ C35_Awaiting(s)
    /\ turns' = turns + 1
    /\ turn'.session = s
    /\ ~IsCancel(turn'.resolved)

(* the answer was stored, the flow completed and left *)
C35_Completed(s) ==
    /\ turn'.path = "flow"
    /\ turn'.dialog.flow_name = "pricing_flow"
    /\ turn'.dialog.flow_status = "COMPLETED"
    /\ "large_order_check" \in DOMAIN turn'.dialog.filled_slots
    /\ turn'.dialog.filled_slots["large_order_check"] = Strip(turn'.resolved)
    /\ active_flows'[s] = NoFlow

C35_Listed == {<<"y", "e", "s">>, <<"y">>, <<"s", "u", "r", "e">>, <<"o", "k">>, <<"y", "e", "a", "h">>, <<"y", "e", "s", " ", "p", "l", "e", "a", "s", "e">>}

C35_RfqExactlyFor(answers) ==
    turn'.action = "rfq" <=> Lower(Strip(turn'.resolved)) \in answers

(* C35: once the product slot of the pricing flow is filled the turn prompts
   with the price question; the next answer without cancel phrase fills
   large_order_check and completes the flow in its turn, and the action of
   the turn is "rfq" exactly when the answer is "yes", "y", "sure", "ok",
   "yeah" or "yes please" *)
C35_PricingAnswer ==
    [][\A s \in PipeSessions :
          /\ (~C35_Awaiting(s) /\ C35_Awaiting(s)') => C35_Prompted'
          /\ C35_Answers(s) => C35_Completed(s) /\ C35_RfqExactlyFor(C35_Listed)]_vars

(* C35 as the code has it: the answer fills and completes unless it names
   another product than the accumulated one (the topic shift clears the
   flow first), and "yes, please" opens the RFQ form too *)
C35_PricingAnswerUnshifted ==
    [][\A s \in PipeSessions :
          /\ (~C35_Awaiting(s) /\ C35_Awaiting(s)') => C35_Prompted'
          /\ C35_Answers(s) /\ turn'.shift /= "shift"
               => /\ C35_Completed(s)
                  /\ C35_RfqExactlyFor(C35_Listed \cup {<<"y", "e", "s", ",", " ", "p", "l", "e", "a", "s", "e">>})]_vars

(* "price of actuators" was answered with "Yes, please": the flow is
   completed with that answer and the action is "rfq" *)
C35_Witness ==
    /\ turns = 2
    /\ turn.text = <<"Y", "e", "s", ",", " ", "p", "l", "e", "a", "s", "e">>
    /\ turn.stage.active = "pricing_flow"
    /\ turn.dialog.flow_status = "COMPLETED"
    /\ turn.dialog.filled_slots["product"] = <<"a", "c", "t", "u", "a", "t", "o", "r">>
    /\ turn.action = "rfq"
    /\ active_flows["s1"] = NoFlow


(* ------------------------------------------------------------------ *)
(* C38, C39: the flows of interleaved sessions                         *)
(* ------------------------------------------------------------------ *)

(* the step is an operation of session s: a turn or a clear_flow *)
C38_StepOf(s) == last'.op \in {"process_turn", "clear_flow"} /\ last'.session = s

(* what session s sees of its active flow: the flow's name with the slot
   values, the attempts and the status *)
C38_Shown(registry, defs, s) ==
    IF registry[s] = NoFlow THEN <<NoFlow>>
    ELSE <<registry[s], defs[registry[s]].value, defs[registry[s]].attempts,
           defs[registry[s]].status>>

(* C38: when the turns of two sessions interleave, the slot values, the
   attempts and the status that a session's active flow shows are changed
   only by that session's own operations: a step of session b never alters
   or resets what session a has collected, also when both use the same flow *)
C38_SessionsIsolated ==
    [][\A a \in Sessions : \A b \in Sessions \ {a} :
          C38_StepOf(b) =>
              C38_Shown(active_flows', flows', a) = C38_Shown(active_flows, flows, a)]_vars

(* C39: in every reachable state each session in the active-flow registry
   maps to a registered flow whose status is IN_PROGRESS or
   AWAITING_CONFIRMATION *)
C39_RegisteredFlowsRunning ==
    \A s \in Sessions :
        active_flows[s] /= NoFlow =>
            /\ active_flows[s] \in FlowNames
            /\ flows[active_flows[s]].status \in {"IN_PROGRESS", "AWAITING_CONFIRMATION"}

(* ------------------------------------------------------------------ *)
(* C40: a cancel token in a turn of the pipeline                       *)
(* ------------------------------------------------------------------ *)

(* the step is a turn of session s whose resolved text holds a whole-word
   cancel, stop, abort, terminate, exit or quit *)
C40_CancelTurn(s) ==
    /\ turns' = turns + 1
    /\ turn'.session = s
    /\ HasCancelToken(turn'.resolved)

(* none of the flow's slots holds the text *)
C40_NotStored(f, text) ==
    \A i \in DOMAIN f.value : f.value[i] \notin {text, Strip(text)}

(* C40: after a turn of the pipeline whose text holds a whole-word cancel,
   stop, abort, terminate, exit or quit the session has no active flow: a
   flow active before the turn is deregistered and reset, and the text is
   in none of its slots *)
C40_CancelTokenEndsFlow ==
    [][\A s \in PipeSessions :
          C40_CancelTurn(s) =>
              /\ active_flows'[s] = NoFlow
              /\ active_flows[s] /= NoFlow =>
                    /\ IsReset(active_flows[s], flows'[active_flows[s]])
                    /\ C40_NotStored(flows'[active_flows[s]], turn'.resolved)
                    /\ turn'.path = "flow" =>
                          \A n \in DOMAIN turn'.dialog.filled_slots :
                              turn'.dialog.filled_slots[n] /= Strip(turn'.resolved)]_vars

====
